---------------------------- MODULE Spec2Model ----------------------------
(* zpl-imager: the ZPL tokenizer (splitZplCommands), the command         *)
(* evaluator (analyze) with its VirtualPrinter state, and the top-level  *)
(* render entry.  Strings are TLA+ strings; JavaScript's string methods  *)
(* are the operators of the first section, written after their          *)
(* ECMAScript definitions.                                              *)
EXTENDS Integers, Sequences, FiniteSets, TLC

(***************************************************************************)
(* Bounds of the model                                                     *)
(***************************************************************************)
\* longest input string given to splitZplCommands
MaxZplLen == 4
\* most command tokens of one analysed document
MaxCmds == 4

(***************************************************************************)
(* JavaScript values and string methods                                    *)
(***************************************************************************)
\* parseInt/parseFloat's NaN: an integer no parameter of the model can reach
NaN == 0 - 1000000
\* parts[k] of a missing part; parseInt(undefined) parses the text "undefined"
Undefined == "undefined"
\* null of a string-valued field (fieldOrientation)
Null == "null"
\* null / a value of an object-valued field (nextPosition, pendingBarcode, fieldBlock)
None == <<>>
Some(v) == <<v>>

\* undefined where a number is expected (a parameter that was not passed)
Undef == 0 - 1000001
IsNaN(n) == n = NaN
\* n || d  for a number n: 0 and NaN are falsy
OrElse(n, d) == IF IsNaN(n) \/ n = Undef \/ n = 0 THEN d ELSE n
\* typeof n === 'number' && n > 0  (false for NaN and for undefined)
\* mutant of IsPositiveNumber: zero is accepted
IsNonNegativeNumber(n) == n # Undef /\ ~IsNaN(n) /\ n >= 0
IsPositiveNumber(n) == ~IsNaN(n) /\ n # Undef /\ n > 0

CharAt(s, i) == IF i >= 0 /\ i < Len(s) THEN SubSeq(s, i + 1, i + 1) ELSE ""
Clamp(i, n) == IF i < 0 THEN 0 ELSE IF i > n THEN n ELSE i
Substring(s, a, b) ==
    LET lo == Clamp(IF a < b THEN a ELSE b, Len(s))
        hi == Clamp(IF a < b THEN b ELSE a, Len(s))
    IN IF lo >= hi THEN "" ELSE SubSeq(s, lo + 1, hi)
SubstringFrom(s, a) == Substring(s, a, Len(s))
StartsWith(s, p) == Len(s) >= Len(p) /\ Substring(s, 0, Len(p)) = p

\* white space of String.prototype.trim and of the regular expression \s
WhiteSpace == {" ", "\t", "\n", "\f", "\r"}
RECURSIVE TrimStart(_)
TrimStart(s) == IF Len(s) > 0 /\ CharAt(s, 0) \in WhiteSpace THEN TrimStart(SubstringFrom(s, 1)) ELSE s
RECURSIVE TrimEnd(_)
TrimEnd(s) ==
    IF Len(s) > 0 /\ CharAt(s, Len(s) - 1) \in WhiteSpace THEN TrimEnd(Substring(s, 0, Len(s) - 1)) ELSE s
Trim(s) == TrimEnd(TrimStart(s))

LowerCase == "abcdefghijklmnopqrstuvwxyz"
UpperCase == "ABCDEFGHIJKLMNOPQRSTUVWXYZ"
UpperOf == [c \in {CharAt(LowerCase, i) : i \in 0..25} |->
              CharAt(UpperCase, CHOOSE i \in 0..25 : CharAt(LowerCase, i) = c)]
UpperChar(c) == IF c \in DOMAIN UpperOf THEN UpperOf[c] ELSE c
RECURSIVE ToUpperCase(_)
ToUpperCase(s) == IF s = "" THEN "" ELSE UpperChar(CharAt(s, 0)) \o ToUpperCase(SubstringFrom(s, 1))

\* s.indexOf(c, from) for a one-character c; -1 when absent
RECURSIVE IndexOf(_, _, _)
IndexOf(s, c, from) ==
    IF from >= Len(s) THEN 0 - 1
    ELSE IF CharAt(s, from) = c THEN from
    ELSE IndexOf(s, c, from + 1)

\* s.split(c) for a one-character separator: always at least one part
RECURSIVE Split(_, _)
Split(s, c) ==
    LET k == IndexOf(s, c, 0)
    IN IF k < 0 THEN <<s>> ELSE <<Substring(s, 0, k)>> \o Split(SubstringFrom(s, k + 1), c)
\* parts[k], 0-based
Part(parts, k) == IF k < Len(parts) THEN parts[k + 1] ELSE Undefined

Digits == "0123456789"
DigitOf == [c \in {CharAt(Digits, i) : i \in 0..9} |-> CHOOSE i \in 0..9 : CharAt(Digits, i) = c]
IsDigit(c) == c \in DOMAIN DigitOf
DigitVal(c) == DigitOf[c]
RECURSIVE DigitRun(_, _)
\* value of the longest run of decimal digits at the head of s, after acc
DigitRun(s, acc) == IF IsDigit(CharAt(s, 0)) THEN DigitRun(SubstringFrom(s, 1), acc * 10 + DigitVal(CharAt(s, 0))) ELSE acc
\* parseInt(s, 10): leading white space, an optional sign, then digits; NaN without a digit
ParseInt(s) ==
    LET t == TrimStart(s)
        neg == CharAt(t, 0) = "-"
        u == IF CharAt(t, 0) \in {"-", "+"} THEN SubstringFrom(t, 1) ELSE t
    IN IF ~IsDigit(CharAt(u, 0)) THEN NaN
       ELSE IF neg THEN 0 - DigitRun(u, 0) ELSE DigitRun(u, 0)

\* parseFloat(s): on text without a fraction or an exponent (all the model's
\* parameters) it reads the same decimal prefix as parseInt(s, 10)
ParseFloat(s) == ParseInt(s)
\* /[Yy]/.test(s)
HasY(s) == IndexOf(s, "Y", 0) >= 0 \/ IndexOf(s, "y", 0) >= 0

(***************************************************************************)
(* State                                                                   *)
(***************************************************************************)
VARIABLES
    zpl,              \* splitZplCommands: its argument
    commands,         \* splitZplCommands: the list it returned
    splitDone,        \* splitZplCommands has returned
    profile,          \* analyze: the family of tokens the document is written in
    printer,          \* analyze: the VirtualPrinter
    labels,           \* analyze: the finished labels, each a list of elements
    currentElements,  \* analyze: the element buffer of the label being read
    hist,             \* analyze: the command tokens read so far, in order
    pc,               \* where render is: "analyze", "analyzed", "rendered", "failed"
    drawn,            \* render: the elements handed to the drawers, in order
    loaded,           \* font.ts: the module's memo flag
    registered,       \* PImage.registerFont: the calls made so far, by face
    loading,          \* the load() calls started so far, by face
    fontPc,           \* ensureFont: where each caller's call is
    fontCalls,        \* the ensureFont calls each caller has made
    overlap,          \* some ensureFont call started while another was suspended
    succeeded,        \* some ensureFont call has returned normally
    failed,           \* some ensureFont call has rejected
    elements,         \* drawElements: its argument, annotated by the prepares
    dpc,              \* drawElements: where the invocation is
    idx,              \* drawElements: the index of the running loop
    await,            \* drawElements: what the running prepare is suspended on
    canvas,           \* drawElements: the size of the canvas made
    paints,           \* the drawing operations on the canvas, in order
    trace             \* the prepare, draw and encode events, in order

splitVars == <<zpl, commands, splitDone>>
analyzeVars == <<profile, printer, labels, currentElements, hist, pc, drawn>>
fontVars == <<loaded, registered, loading, fontPc, fontCalls, overlap, succeeded, failed>>
drawVars == <<elements, dpc, idx, await, canvas, paints, trace>>
vars == <<splitVars, analyzeVars, fontVars, drawVars>>

(***************************************************************************)
(* VirtualPrinter                                                          *)
(***************************************************************************)
\* the state reset() leaves, which is also the constructor's
Reset ==
    [ nextPosition |-> None,
      fontName |-> "0", fontHeight |-> 10, fontWidth |-> 0, orientation |-> "N",
      barcodeModuleWidth |-> 2, barcodeRatio |-> 3, barcodeHeight |-> 50,
      pendingBarcode |-> None,
      labelHome |-> [x |-> 0, y |-> 0],
      reverseNext |-> FALSE,
      fieldBlock |-> None,
      fieldOrientation |-> Null,
      graphics |-> <<>> ]

SetNextPosition(p, x, y, bottom, originType) ==
    [p EXCEPT !.nextPosition = Some([x |-> x, y |-> y, bottom |-> bottom, originType |-> originType])]
ClearNextPosition(p) == [p EXCEPT !.nextPosition = None]

\* width is Undef when the caller passes undefined: the default parameter makes it 0
SetFont(p, fontName, orientation, height, width) ==
    LET w == IF width = Undef THEN 0 ELSE width
    IN [p EXCEPT
          !.fontName = fontName,
          !.orientation = IF p.fieldOrientation # Null THEN p.fieldOrientation ELSE orientation,
          !.fontHeight = IF IsPositiveNumber(height) THEN height ELSE @,
          !.fontWidth = IF ~IsNaN(w) /\ w >= 0 THEN w ELSE @]
\* mutant of GetFont: the orientation kept by setFont is returned as it is
GetFontIgnoresFieldOrientation(p) ==
    [ name |-> p.fontName, orientation |-> p.orientation, height |-> p.fontHeight, width |-> p.fontWidth ]
GetFont(p) ==
    [ name |-> p.fontName,
      orientation |-> IF p.fieldOrientation # Null THEN p.fieldOrientation ELSE p.orientation,
      height |-> p.fontHeight,
      width |-> p.fontWidth ]

SetBarcodeDefaults(p, moduleWidth, ratio, height) ==
    [p EXCEPT
       !.barcodeModuleWidth = IF IsPositiveNumber(moduleWidth) THEN moduleWidth ELSE @,
       !.barcodeRatio = IF IsPositiveNumber(ratio) THEN ratio ELSE @,
       !.barcodeHeight = IF IsPositiveNumber(height) THEN height ELSE @]

SetReverseNext(p) == [p EXCEPT !.reverseNext = TRUE]
\* mutant of ConsumeReverseNext: the flag is read but stays armed
ConsumeReverseNextKeepsFlag(p) == p
\* consumeReverseNext: the flag it returns is p.reverseNext, this is the state it leaves
ConsumeReverseNext(p) == [p EXCEPT !.reverseNext = FALSE]

SetPendingBarcode(p, spec) == [p EXCEPT !.pendingBarcode = Some(spec)]
\* mutant of ClearPendingBarcode: the barcode stays pending
ClearPendingBarcodeKeepsIt(p) == p
ClearPendingBarcode(p) == [p EXCEPT !.pendingBarcode = None]
SetLabelHome(p, x, y) == [p EXCEPT !.labelHome = [x |-> OrElse(x, 0), y |-> OrElse(y, 0)]]
SetFieldBlock(p, width, lines, lineSpacing, align, indent) ==
    [p EXCEPT !.fieldBlock =
        Some([ width |-> OrElse(width, 0), lines |-> OrElse(lines, 0),
               lineSpacing |-> OrElse(lineSpacing, 0),
               align |-> ToUpperCase(IF align = "" THEN "L" ELSE align),
               indent |-> OrElse(indent, 0) ])]
\* mutant of ClearFieldBlock: the block stays armed
ClearFieldBlockKeepsIt(p) == p
ClearFieldBlock(p) == [p EXCEPT !.fieldBlock = None]
SetFieldOrientation(p, orientation) ==
    LET o == ToUpperCase(orientation)
    IN IF o \in {"N", "R", "I", "B"} THEN [p EXCEPT !.fieldOrientation = o] ELSE p
\* graphics is a function from the stored names; an empty key stores nothing
SaveGraphic(p, key, graphic) ==
    IF key = "" THEN p ELSE [p EXCEPT !.graphics = (key :> graphic) @@ @]
\* getGraphic(key) || null
GetGraphic(p, key) == IF key \in DOMAIN p.graphics THEN Some(p.graphics[key]) ELSE None

(***************************************************************************)
(* splitZplCommands                                                        *)
(***************************************************************************)
\* the characters the regular expression /[\n\v\f\r]+/g removes (TLA+ strings
\* have no escape for VT, which the expression treats like the other three)
VerticalWhiteSpace == {"\n", "\f", "\r"}
RECURSIVE StripVertical(_)
StripVertical(s) ==
    IF s = "" THEN ""
    ELSE IF CharAt(s, 0) \in VerticalWhiteSpace THEN StripVertical(SubstringFrom(s, 1))
    ELSE CharAt(s, 0) \o StripVertical(SubstringFrom(s, 1))

Introducers == {"^", "~"}

RECURSIVE SplitLoopDropsFlushed(_, _, _, _)
\* mutant of SplitLoop: the buffer is cleared at an introducer without being pushed
SplitLoopDropsFlushed(clean, i, buffer, cmds) ==
    IF i >= Len(clean)
    THEN IF Len(buffer) > 0 THEN Append(cmds, buffer) ELSE cmds
    ELSE LET c == CharAt(clean, i)
             flush == c \in Introducers /\ Len(buffer) > 0
         IN SplitLoopDropsFlushed(clean, i + 1, (IF flush THEN "" ELSE buffer) \o c, cmds)

RECURSIVE SplitLoop(_, _, _, _)
\* the for loop of splitZplCommands from index i, with the buffer and the list so far,
\* and the push of the last buffer after it
SplitLoop(clean, i, buffer, cmds) ==
    IF i >= Len(clean)
    THEN IF Len(buffer) > 0 THEN Append(cmds, buffer) ELSE cmds
    ELSE LET c == CharAt(clean, i)
             flush == c \in Introducers /\ Len(buffer) > 0
         IN SplitLoop(clean, i + 1,
                      (IF flush THEN "" ELSE buffer) \o c,
                      IF flush THEN Append(cmds, buffer) ELSE cmds)

SplitZplCommands(z) == IF z = "" THEN <<>> ELSE SplitLoop(StripVertical(z), 0, "", <<>>)

\* the input strings: every string over ZplAlphabet of at most MaxZplLen characters
ZplAlphabet == {"^", "~", "a", " ", "\n", "\r"}
RECURSIVE StringsUpTo(_)
StringsUpTo(n) ==
    IF n = 0 THEN {""}
    ELSE LET p == StringsUpTo(n - 1) IN p \cup {s \o c : s \in p, c \in ZplAlphabet}

\* the early return for a falsy argument
SplitEmpty ==
    /\ ~splitDone
    /\ zpl = ""
    /\ commands' = <<>>
    /\ splitDone' = TRUE
    /\ UNCHANGED <<zpl, analyzeVars, fontVars, drawVars>>

SplitScan ==
    /\ ~splitDone
    /\ zpl # ""
    /\ commands' = SplitZplCommands(zpl)
    /\ splitDone' = TRUE
    /\ UNCHANGED <<zpl, analyzeVars, fontVars, drawVars>>

(***************************************************************************)
(* analyze: the documents                                                  *)
(***************************************************************************)
\* The loop of analyze reads one token of splitZplCommands' list per step.  A
\* document is any list of at most MaxCmds tokens of one vocabulary; a token
\* without introducer can only be the first of the list.
Profiles ==
    {"label", "image", "field", "code", "misc", "block", "font", "defaults", "shape", "scenario", "wrap",
     "render", "barcode", "store"}
\* The documents of five families are written to a pattern, the k-th token one of the
\* k-th set: a field block of every width, a font, and a payload to wrap; the one
\* document ^XA^FO0,0^FB60,0,0,C,0^A0N,20,10^FDHello world here^FS^XZ; and labels of
\* shapes and text with commands after their ^XZ, for render; and barcodes with
\* defaults from ^BY before and after the ^Bx; and graphics stored and recalled around
\* ^XA, ^XZ and ^FS.
WrapBlocks == {"^FB0", "^FB2", "^FB4", "^FB8", "^FB14", "^FB24,2"}
WrapFonts == {"^LH0,0", "^A0N,20,10", "^AAN,5"}
WrapPayloads ==
    {"^FD", "^FDab", "^FDa bc d", "^FD a  b", "^FDabcd e f", "^FDab\\&c d", "^FDa \\&b", "^FDa b c d e"}
Patterns ==
    [ scenario |-> << {"^XA"}, {"^FO0,0"}, {"^FB60,0,0,C,0"}, {"^A0N,20,10"}, {"^FDHello world here"},
                      {"^FS"}, {"^XZ"} >>,
      wrap |-> <<WrapBlocks, WrapFonts, WrapPayloads>>,
      render |-> << {"^FR", "^FO3,4"}, {"^GB7,8,2", "^GC5,1", "^FDab"}, {"^XZ", "^GD4,4,1,W"},
                    {"^XA", "^FDab", "^GB7,8,2", "^FO3,4"}, {"^XZ", "^GC5,1", "^XA"} >>,
      barcode |-> << {"^BY3,2,40", "^BY"}, {"^BCN,0", "^BCN,30", "^BCN", "^B3N,N,0", "^B7N,0", "^B7N,4"},
                     {"^BY2,3,7", "^FDq", "^FO3,4"}, {"^FDq"} >>,
      store |-> << {"~DGR:A,1,1,FF", "~DYR:A,P,P,1,,,8950", "~DGR:B,1,1,FF", "^XA"},
                   {"^XA", "^XZ", "~DGR:A,1,1,FF"},
                   {"^XA", "^XZ", "^FS", "^XGR:A,2,2"},
                   {"^XZ", "^FS", "^XGR:A,2,2", "^IMR:A"},
                   {"^XGR:A,2,2", "^IMR:A"} >> ]
VocabularyOf(f) ==
    CASE f \in DOMAIN Patterns -> UNION {Patterns[f][k] : k \in 1..Len(Patterns[f])}
      [] f = "label" ->
           { "^XA", "^XZ", "^FO3,4", "^LH1,2", "^FR", "^GB7,8,2", "^GC5,1", "^GD4,4,1,W",
             "^FDab", "^FS", "^BCN,30" }
      [] f = "image" ->
           { "^XA", "^XZ", "^FO3,4", "^LH1,2", "^FR", "^XGR:A,2,2", "~DYR:A,P,P,1,,,8950",
             "^IMR:A", "~DGR:B,1,1,FF" }
      [] f = "field" ->
           { "^XA", "^FO3,4", "^FT5,6,B", "^LH1,2", "^FB20,2,1,c,3", "^FDabc de", "^FDa\\&b",
             "^A0R,20,10", "^CFA,30", "^FWB" }
      [] f = "code" ->
           { "^XA", "^FO3,4", "^BY3,2,40", "^B3,N,40", "^BCN,30", "^A", "^FDq", "^FS" }
      [] f = "block" ->
           { "^XZ", "^FO3,4", "^FB20,2,1,c,3", "^BCN,30", "^FDabc de", "^IMR:A", "^XGR:A,2,2",
             "^FS", "^FR" }
      [] f = "font" ->
           { "^XA", "^A0R,20,10", "^AAI", "^CFA,30", "^CF,,5", "^FWB", "^FWx", "^FWi", "^FD a " }
      [] f = "defaults" ->
           { "^XA", "^BY3,2,40", "^BY", "^BY,4,", "^BY0,x,7", "^BY-1,5", "^BCN", "^FDq",
             "~DYR:L.PNG,P,P,4,,,89504E470D0A1A0A" }
      [] f = "shape" ->
           { "^LH1,2", "^FO3,4", "^GB7", "^GB7,x,", "^GC5,", "^GD4,y,", "^GD", "^IMR:A",
             "^XGR:A,2,2" }
      [] f = "misc" ->
           { "^xa ", "^xz", "~XA", "^ZZ9", "^BZ1", "^ ", "ab", "aFDx", "^fo1,1",
             "^BY3,2,40", "^GB,," }

Vocabulary == [f \in Profiles |-> VocabularyOf(f)]
HasIntroducer(tok) == CharAt(tok, 0) \in Introducers

(***************************************************************************)
(* analyze: the dispatch of one token                                      *)
(***************************************************************************)
SwitchCases ==
    { "FO", "FT", "LH", "BY", "GB", "FR", "CF", "FW", "FB", "IM", "DG", "DY", "XG",
      "GC", "GD", "FD", "FS" }
Prefix(cmd) == ToUpperCase(Substring(cmd, 1, 3))
\* the branch of the loop body that the token takes
Dispatch(rawCmd) ==
    LET cmd == Trim(rawCmd)
    IN IF Len(cmd) < 2 THEN "skip"
       ELSE IF ToUpperCase(Substring(cmd, 0, 3)) = "^XA" THEN "XA"
       ELSE IF ToUpperCase(Substring(cmd, 0, 3)) = "^XZ" THEN "XZ"
       ELSE IF Prefix(cmd) \in SwitchCases THEN Prefix(cmd)
       ELSE IF CharAt(Prefix(cmd), 0) = "B" THEN "B"
       ELSE IF CharAt(Prefix(cmd), 0) = "A" THEN "A"
       ELSE "other"

\* the branch of every token of the vocabularies, and the token as the loop body trims it
BranchOf == [t \in UNION {Vocabulary[f] : f \in Profiles} |-> Dispatch(t)]
Trimmed == [t \in UNION {Vocabulary[f] : f \in Profiles} |-> Trim(t)]

\* the parameter list of a command: cmd.substring(3).split(",")
Params(cmd) == Split(SubstringFrom(cmd, 3), ",")
\* printer.nextPosition || {x: 0, y: 0}
\* mutant of PosOrOrigin: the fallback is the label home
PosOrOriginUsesHome(p) == IF p.nextPosition # None THEN p.nextPosition[1] ELSE p.labelHome
PosOrOrigin(p) == IF p.nextPosition # None THEN p.nextPosition[1] ELSE [x |-> 0, y |-> 0]
\* printer.nextPosition || {x: labelHome.x, y: labelHome.y}
PosOrHome(p) == IF p.nextPosition # None THEN p.nextPosition[1] ELSE p.labelHome

(***************************************************************************)
(* analyze: the commands.  Each operator takes the printer and the trimmed *)
(* token and gives the printer the command leaves and the elements it      *)
(* pushes onto currentElements.                                            *)
(***************************************************************************)
Result(p, els) == [printer |-> p, elements |-> els]

\* mutant of FieldPosition: the coordinates are taken as absolute, labelHome is not added
FieldPositionIgnoresHome(p, cmd, originType) ==
    LET parts == Params(cmd)
        x == OrElse(ParseInt(Part(parts, 0)), 0)
        y == OrElse(ParseInt(Part(parts, 1)), 0)
        bottom == Len(parts) > 2 /\ ToUpperCase(Trim(Part(parts, 2))) = "B"
    IN Result(SetNextPosition(p, x, y, bottom, originType), <<>>)
\* ^FO and ^FT: arm nextPosition at labelHome + (x, y)
FieldPosition(p, cmd, originType) ==
    LET parts == Params(cmd)
        x == OrElse(ParseInt(Part(parts, 0)), 0)
        y == OrElse(ParseInt(Part(parts, 1)), 0)
        bottom == Len(parts) > 2 /\ ToUpperCase(Trim(Part(parts, 2))) = "B"
    IN Result(SetNextPosition(p, p.labelHome.x + x, p.labelHome.y + y, bottom, originType), <<>>)
CaseFO(p, cmd) == FieldPosition(p, cmd, "top-left")
CaseFT(p, cmd) == FieldPosition(p, cmd, "baseline")

CaseLH(p, cmd) ==
    LET parts == Params(cmd)
    IN Result(SetLabelHome(p, OrElse(ParseInt(Part(parts, 0)), 0), OrElse(ParseInt(Part(parts, 1)), 0)), <<>>)

CaseBY(p, cmd) ==
    LET parts == Params(cmd)
        moduleWidth == ParseInt(Part(parts, 0))
        ratio == IF Len(parts) > 1 THEN ParseFloat(Part(parts, 1)) ELSE Undef
        height == IF Len(parts) > 2 THEN ParseInt(Part(parts, 2)) ELSE Undef
    IN Result(SetBarcodeDefaults(p, moduleWidth, ratio, height), <<>>)

CaseGB(p, cmd) ==
    LET parts == Params(cmd)
        w == OrElse(ParseInt(Part(parts, 0)), 0)
        h == IF Len(parts) > 1 THEN ParseInt(Part(parts, 1)) ELSE 0
        t == IF Len(parts) > 2 THEN ParseInt(Part(parts, 2)) ELSE 1
        c == IF Len(parts) > 3 THEN ToUpperCase(Trim(Part(parts, 3))) ELSE "B"
        pos == PosOrOrigin(p)
    IN Result(ClearNextPosition(ConsumeReverseNext(p)),
              << [ type |-> "box", x |-> pos.x, y |-> pos.y, width |-> w, height |-> h,
                   thickness |-> t, color |-> c, reverse |-> p.reverseNext ] >>)

CaseFR(p, cmd) == Result(SetReverseNext(p), <<>>)

CaseCF(p, cmd) ==
    LET parts == Params(cmd)
        first == Trim(Part(parts, 0))
        fontDesignator == IF Len(first) > 0 THEN CharAt(first, 0) ELSE p.fontName
        h == IF Len(parts) > 1 THEN ParseInt(Part(parts, 1)) ELSE NaN
        w == IF Len(parts) > 2 THEN ParseInt(Part(parts, 2)) ELSE NaN
        height == IF IsNaN(h) THEN Undef ELSE h
        width == IF IsNaN(w) THEN Undef ELSE w
    IN Result(SetFont(p, fontDesignator, p.orientation, height, width), <<>>)

CaseFW(p, cmd) ==
    LET paramString == Trim(SubstringFrom(cmd, 3))
    IN Result(IF Len(paramString) > 0 THEN SetFieldOrientation(p, ToUpperCase(CharAt(paramString, 0))) ELSE p,
              <<>>)

CaseFB(p, cmd) ==
    LET parts == Params(cmd)
        width == ParseInt(Part(parts, 0))
        lines == IF Len(parts) > 1 THEN ParseInt(Part(parts, 1)) ELSE 0
        spacing == IF Len(parts) > 2 THEN ParseInt(Part(parts, 2)) ELSE 0
        align == IF Len(parts) > 3 /\ Len(Trim(Part(parts, 3))) > 0
                 THEN ToUpperCase(CharAt(Trim(Part(parts, 3)), 0)) ELSE "L"
        indent == IF Len(parts) > 4 THEN ParseInt(Part(parts, 4)) ELSE 0
    IN Result(SetFieldBlock(p, width, lines, spacing, align, indent), <<>>)

\* ^IM and ^XG have the same body
ImageRecall(p, cmd) ==
    LET parts == Params(cmd)
        fileSpec == Trim(Part(parts, 0))
        mx == IF Len(parts) > 1 /\ Part(parts, 1) # "" THEN ParseFloat(Part(parts, 1)) ELSE 1
        my == IF Len(parts) > 2 /\ Part(parts, 2) # "" THEN ParseFloat(Part(parts, 2)) ELSE 1
        pos == PosOrHome(p)
    IN Result(ClearFieldBlock(ClearNextPosition(ConsumeReverseNext(p))),
              << [ type |-> "image", x |-> pos.x, y |-> pos.y,
                   scaleX |-> IF IsNaN(mx) THEN 1 ELSE mx,
                   scaleY |-> IF IsNaN(my) THEN 1 ELSE my,
                   reverse |-> p.reverseNext,
                   orientation |-> IF p.fieldOrientation # Null THEN p.fieldOrientation ELSE "N",
                   graphic |-> GetGraphic(p, fileSpec) ] >>)
CaseIM(p, cmd) == ImageRecall(p, cmd)
CaseXG(p, cmd) == ImageRecall(p, cmd)

CaseDG(p, cmd) ==
    LET paramString == SubstringFrom(cmd, 3)
        first == IndexOf(paramString, ",", 0)
        second == IF first >= 0 THEN IndexOf(paramString, ",", first + 1) ELSE 0 - 1
        third == IF second >= 0 THEN IndexOf(paramString, ",", second + 1) ELSE 0 - 1
    IN IF first >= 0 /\ second >= 0 /\ third >= 0
       THEN Result(SaveGraphic(p, Trim(Substring(paramString, 0, first)),
                     [ totalBytes |-> OrElse(ParseInt(Substring(paramString, first + 1, second)), 0),
                       bytesPerRow |-> OrElse(ParseInt(Substring(paramString, second + 1, third)), 0),
                       dataString |-> SubstringFrom(paramString, third + 1) ]),
                   <<>>)
       ELSE Result(p, <<>>)

HexDigits == "0123456789ABCDEF"
HexOf == [c \in {CharAt(HexDigits, i) : i \in 0..15} |-> CHOOSE i \in 0..15 : CharAt(HexDigits, i) = c]
IsHex(c) == UpperChar(c) \in DOMAIN HexOf
HexVal(c) == HexOf[UpperChar(c)]
RECURSIVE HexDecode(_)
\* Buffer.from(s, "hex"): one byte per pair of hexadecimal digits, up to the
\* first pair that is not one
HexDecode(s) ==
    IF IsHex(CharAt(s, 0)) /\ IsHex(CharAt(s, 1))
    THEN <<16 * HexVal(CharAt(s, 0)) + HexVal(CharAt(s, 1))>> \o HexDecode(SubstringFrom(s, 2))
    ELSE <<>>
RECURSIVE Join(_, _)
Join(parts, sep) ==
    IF parts = <<>> THEN ""
    ELSE IF Len(parts) = 1 THEN Head(parts)
    ELSE Head(parts) \o sep \o Join(Tail(parts), sep)

CaseDY(p, cmd) ==
    LET parts == Params(cmd)
        dataHex == Join(SubSeq(parts, 6, Len(parts)), ",")
    IN IF Len(parts) >= 6
       THEN Result(SaveGraphic(p, Trim(Part(parts, 0)), [data |-> HexDecode(Trim(dataHex)), type |-> "png"]), <<>>)
       ELSE Result(p, <<>>)

\* mutant of CaseGC: the circle is pushed and the armed position is left armed
CaseGCKeepsPosition(p, cmd) ==
    LET parts == Params(cmd)
        d == OrElse(ParseInt(Part(parts, 0)), 0)
        t == IF Len(parts) > 1 THEN ParseInt(Part(parts, 1)) ELSE 0
        c == IF Len(parts) > 2 THEN ToUpperCase(Trim(Part(parts, 2))) ELSE "B"
        pos == PosOrOrigin(p)
    IN Result(ConsumeReverseNext(p),
              << [ type |-> "circle", x |-> pos.x, y |-> pos.y, diameter |-> d,
                   thickness |-> t, color |-> c, reverse |-> p.reverseNext ] >>)
CaseGC(p, cmd) ==
    LET parts == Params(cmd)
        d == OrElse(ParseInt(Part(parts, 0)), 0)
        t == IF Len(parts) > 1 THEN ParseInt(Part(parts, 1)) ELSE 0
        c == IF Len(parts) > 2 THEN ToUpperCase(Trim(Part(parts, 2))) ELSE "B"
        pos == PosOrOrigin(p)
    IN Result(ClearNextPosition(ConsumeReverseNext(p)),
              << [ type |-> "circle", x |-> pos.x, y |-> pos.y, diameter |-> d,
                   thickness |-> t, color |-> c, reverse |-> p.reverseNext ] >>)

CaseGD(p, cmd) ==
    LET parts == Params(cmd)
        w == OrElse(ParseInt(Part(parts, 0)), 0)
        h == IF Len(parts) > 1 THEN ParseInt(Part(parts, 1)) ELSE 0
        t == IF Len(parts) > 2 THEN ParseInt(Part(parts, 2)) ELSE 1
        c == IF Len(parts) > 3 THEN ToUpperCase(Trim(Part(parts, 3))) ELSE "B"
        pos == PosOrOrigin(p)
    IN Result(ClearNextPosition(ConsumeReverseNext(p)),
              << [ type |-> "diagonal", x |-> pos.x, y |-> pos.y, width |-> w, height |-> h,
                   thickness |-> t, color |-> c, reverse |-> p.reverseNext ] >>)

\* mutant of CaseFS: the field separator also ends the field block
CaseFSClearsBlock(p, cmd) == Result(ClearFieldBlock(ClearPendingBarcode(ClearNextPosition(p))), <<>>)
CaseFS(p, cmd) == Result(ClearPendingBarcode(ClearNextPosition(p)), <<>>)

(***************************************************************************)
(* analyze: ^FD and the wrapping of a field block                          *)
(***************************************************************************)
\* the estimated character width is fontHeight * 0.6 * scaleX
CharWidthTenths == 6
\* scaleX of font 0 without a width, in hundredths
DefaultScaleHundredths == 65

\* s.indexOf(pat, from) for a pattern of any length
RECURSIVE IndexOfString(_, _, _)
IndexOfString(s, pat, from) ==
    IF from + Len(pat) > Len(s) THEN 0 - 1
    ELSE IF Substring(s, from, from + Len(pat)) = pat THEN from
    ELSE IndexOfString(s, pat, from + 1)
RECURSIVE SplitParagraphs(_)
\* text.split(/\\&/): the parts between the two-character escapes \&
SplitParagraphs(text) ==
    LET k == IndexOfString(text, "\\&", 0)
    IN IF k < 0 THEN <<text>>
       ELSE <<Substring(text, 0, k)>> \o SplitParagraphs(SubstringFrom(text, k + 2))
RECURSIVE FirstWhiteSpace(_, _)
FirstWhiteSpace(s, from) ==
    IF from >= Len(s) THEN 0 - 1
    ELSE IF CharAt(s, from) \in WhiteSpace THEN from
    ELSE FirstWhiteSpace(s, from + 1)
RECURSIVE SplitWords(_)
\* raw.split(/\s+/): the parts between the maximal runs of white space
SplitWords(raw) ==
    LET k == FirstWhiteSpace(raw, 0)
    IN IF k < 0 THEN <<raw>>
       ELSE <<Substring(raw, 0, k)>> \o
            SplitWords(SubstringFrom(raw, Len(raw) - Len(TrimStart(SubstringFrom(raw, k)))))
RECURSIVE PackWordsNeverBreaks(_, _, _, _)
\* mutant of PackWords: a word that overflows is put on the line all the same
PackWordsNeverBreaks(words, line, maxChars, bounded) ==
    IF words = <<>> THEN <<line>>
    ELSE PackWordsNeverBreaks(Tail(words),
                              IF Len(line) > 0 THEN line \o " " \o Head(words) ELSE Head(words),
                              maxChars, bounded)
RECURSIVE PackWords(_, _, _, _)
\* the inner loop over the words of one paragraph, with the line so far; maxChars is
\* Infinity when bounded is false
PackWords(words, line, maxChars, bounded) ==
    IF words = <<>> THEN <<line>>
    ELSE LET word == Head(words)
             prospective == IF Len(line) > 0 THEN line \o " " \o word ELSE word
         IN IF bounded /\ Len(prospective) > maxChars /\ Len(line) > 0
            THEN <<line>> \o PackWords(Tail(words), word, maxChars, bounded)
            ELSE PackWords(Tail(words), prospective, maxChars, bounded)
RECURSIVE WrapParagraphs(_, _, _)
WrapParagraphs(rawParts, maxChars, bounded) ==
    IF rawParts = <<>> THEN <<>>
    ELSE PackWords(SplitWords(Head(rawParts)), "", maxChars, bounded)
         \o WrapParagraphs(Tail(rawParts), maxChars, bounded)

\* mutant of WrapScaleX: the width of the font is not looked at
WrapScaleXWithoutWidth(font) ==
    IF ToUpperCase(font.name) = "0" THEN <<DefaultScaleHundredths, 100>> ELSE <<1, 1>>
\* scaleX of the wrapping estimate as a fraction <<numerator, denominator>>
WrapScaleX(font) ==
    IF ToUpperCase(font.name) = "0"
    THEN IF font.width > 0 /\ font.height > 0 THEN <<font.width, font.height>>
         ELSE <<DefaultScaleHundredths, 100>>
    ELSE <<1, 1>>
\* Math.floor(block.width / charWidth), charWidth = fontHeight * 0.6 * scaleX, in
\* exact arithmetic (charWidth is never 0: fontHeight and scaleX are positive)
MaxChars(block, font) ==
    LET fontHeight == OrElse(font.height, 10)
        scaleX == WrapScaleX(font)
    IN (block.width * 10 * scaleX[2]) \div (fontHeight * CharWidthTenths * scaleX[1])

\* mutant of BlockText: the lines are not centred in the block
BlockTextNotCentred(p, text, pos, originType) ==
    LET font == GetFont(p)
        block == p.fieldBlock[1]
        fontHeight == OrElse(font.height, 10)
        wrappedLines == WrapParagraphs(SplitParagraphs(text), MaxChars(block, font), block.width > 0)
        maxLines == IF block.lines > 0 /\ block.lines < Len(wrappedLines) THEN block.lines ELSE Len(wrappedLines)
    IN [ i \in 1..maxLines |->
           [ type |-> "text",
             x |-> pos.x + (IF i = 1 THEN 0 ELSE block.indent),
             y |-> pos.y + (i - 1) * (fontHeight + block.lineSpacing),
             text |-> wrappedLines[i], height |-> fontHeight, width |-> font.width,
             fontName |-> font.name, orientation |-> font.orientation, originType |-> originType,
             blockWidth |-> block.width, blockAlign |-> block.align ] ]
\* the elements of a ^FD with a field block armed
BlockText(p, text, pos, originType) ==
    LET font == GetFont(p)
        block == p.fieldBlock[1]
        fontHeight == OrElse(font.height, 10)
        wrappedLines == WrapParagraphs(SplitParagraphs(text), MaxChars(block, font), block.width > 0)
        actualLineCount == Len(wrappedLines)
        maxLines == IF block.lines > 0 /\ block.lines < actualLineCount THEN block.lines ELSE actualLineCount
        totalHeight == actualLineCount * (fontHeight + block.lineSpacing) - block.lineSpacing
        availableHeight == block.lines * (fontHeight + block.lineSpacing) - block.lineSpacing
        offsetY == IF block.lines > 0 /\ block.lines > actualLineCount
                   THEN (availableHeight - totalHeight) \div 2 ELSE 0
    IN [ i \in 1..maxLines |->
           [ type |-> "text",
             x |-> pos.x + (IF i = 1 THEN 0 ELSE block.indent),
             y |-> pos.y + offsetY + (i - 1) * (fontHeight + block.lineSpacing),
             text |-> wrappedLines[i], height |-> fontHeight, width |-> font.width,
             fontName |-> font.name, orientation |-> font.orientation, originType |-> originType,
             blockWidth |-> block.width, blockAlign |-> block.align ] ]

\* mutant of CaseFD: a barcode element takes the defaults in force at the ^FD
CaseFDWithCurrentDefaults(p, cmd) ==
    LET text == SubstringFrom(cmd, 3)
        pos == PosOrHome(p)
        font == GetFont(p)
        originType == IF p.nextPosition # None THEN p.nextPosition[1].originType ELSE "top-left"
    IN IF p.pendingBarcode # None
       THEN LET bc == p.pendingBarcode[1]
            IN Result(ClearNextPosition(ClearPendingBarcode(p)),
                      << [ type |-> "barcode", x |-> pos.x, y |-> pos.y, codeType |-> bc.codeType,
                           text |-> text,
                           height |-> p.barcodeHeight,
                           moduleWidth |-> p.barcodeModuleWidth,
                           ratio |-> p.barcodeRatio,
                           options |-> bc.options, orientation |-> bc.orientation,
                           printInterpretation |-> bc.printInterpretation,
                           printAbove |-> bc.printAbove ] >>)
       ELSE IF p.fieldBlock # None
       THEN Result(ClearNextPosition(ClearFieldBlock(p)), BlockText(p, text, pos, originType))
       ELSE Result(ClearNextPosition(p),
                   << [ type |-> "text", x |-> pos.x, y |-> pos.y, text |-> text,
                        height |-> font.height, width |-> font.width, fontName |-> font.name,
                        orientation |-> font.orientation, originType |-> originType ] >>)
CaseFD(p, cmd) ==
    LET text == SubstringFrom(cmd, 3)
        pos == PosOrHome(p)
        font == GetFont(p)
        originType == IF p.nextPosition # None THEN p.nextPosition[1].originType ELSE "top-left"
    IN IF p.pendingBarcode # None
       THEN LET bc == p.pendingBarcode[1]
            IN Result(ClearNextPosition(ClearPendingBarcode(p)),
                      << [ type |-> "barcode", x |-> pos.x, y |-> pos.y, codeType |-> bc.codeType,
                           text |-> text,
                           height |-> OrElse(bc.height, p.barcodeHeight),
                           moduleWidth |-> OrElse(bc.moduleWidth, p.barcodeModuleWidth),
                           ratio |-> OrElse(bc.ratio, p.barcodeRatio),
                           options |-> bc.options, orientation |-> bc.orientation,
                           printInterpretation |-> bc.printInterpretation,
                           printAbove |-> bc.printAbove ] >>)
       ELSE IF p.fieldBlock # None
       THEN Result(ClearNextPosition(ClearFieldBlock(p)), BlockText(p, text, pos, originType))
       ELSE Result(ClearNextPosition(p),
                   << [ type |-> "text", x |-> pos.x, y |-> pos.y, text |-> text,
                        height |-> font.height, width |-> font.width, fontName |-> font.name,
                        orientation |-> font.orientation, originType |-> originType ] >>)

(***************************************************************************)
(* analyze: the default case, ^Bx and ^Ax                                  *)
(***************************************************************************)
RECURSIVE SkipCommas(_)
SkipCommas(s) == IF StartsWith(s, ",") THEN SkipCommas(SubstringFrom(s, 1)) ELSE s
\* the orientation letter that heads s, if any, and what follows it and one comma
LeadingOrientation(s) ==
    LET o == ToUpperCase(CharAt(s, 0))
        rest == SubstringFrom(s, 1)
    IN IF o \in {"N", "R", "I", "B"}
       THEN [orientation |-> o, rest |-> IF StartsWith(rest, ",") THEN SubstringFrom(rest, 1) ELSE rest]
       ELSE [orientation |-> "N", rest |-> s]
\* restParams.length > 0 ? restParams.split(",") : []
SplitOrEmpty(s) == IF Len(s) > 0 THEN Split(s, ",") ELSE <<>>
\* parseIntSafe: undefined for NaN
ParseIntSafe(s) == IF IsNaN(ParseInt(s)) THEN Undef ELSE ParseInt(s)
\* the value of an integer parameter when it is present and parses, else the default
IntParam(params, k, default) ==
    IF Len(params) > k /\ ParseIntSafe(Part(params, k)) # Undef THEN ParseIntSafe(Part(params, k)) ELSE default
\* an option set only when its parameter is present and parses
IntOption(options, name, params, k) ==
    IF Len(params) > k /\ ParseIntSafe(Part(params, k)) # Undef
    THEN (name :> ParseIntSafe(Part(params, k))) @@ options ELSE options
FlagParam(params, k, default) == IF Len(params) > k THEN HasY(Part(params, k)) ELSE default

\* the cases with height, printInterpretation and printAbove from index h on
LinearSpec(spec, codeType, params, h) ==
    [spec EXCEPT !.codeType = codeType,
                 !.height = IntParam(params, h, @),
                 !.printInterpretation = FlagParam(params, h + 1, TRUE),
                 !.printAbove = FlagParam(params, h + 2, FALSE)]
\* the spec object after the switch on the second character; codeType stays
\* Undefined for an unknown character
BarcodeSpec(p, second, orientation, params) ==
    LET spec == [ codeType |-> Undefined, orientation |-> orientation,
                  height |-> p.barcodeHeight, moduleWidth |-> p.barcodeModuleWidth,
                  ratio |-> p.barcodeRatio, options |-> <<>>,
                  printInterpretation |-> FALSE, printAbove |-> FALSE ]
    IN CASE second \in {"C", "D"} -> LinearSpec(spec, "code128", params, 0)
         [] second = "3" -> LinearSpec(spec, "code39", params, 1)
         [] second \in {"E", "8"} -> LinearSpec(spec, "ean13", params, 0)
         [] second \in {"9", "A"} -> LinearSpec(spec, "code93", params, 0)
         [] second = "2" -> LinearSpec(spec, "interleaved2of5", params, 0)
         [] second = "Q" ->
              [spec EXCEPT !.codeType = "qrcode",
                 !.options = LET o == IntOption(<<>>, "scale", params, 0)
                             IN IF Len(params) > 1 /\ Part(params, 1) # ""
                                THEN ("ecclevel" :> ToUpperCase(Trim(Part(params, 1)))) @@ o ELSE o]
         [] second = "X" ->
              [spec EXCEPT !.codeType = "datamatrix", !.options = IntOption(<<>>, "scale", params, 0)]
         [] second = "7" ->
              [spec EXCEPT !.codeType = "pdf417",
                 !.moduleWidth = IntParam(params, 0, @),
                 !.options =
                     LET o1 == IntOption(<<>>, "securitylevel", params, 1)
                         o2 == IntOption(o1, "columns", params, 2)
                         o3 == IntOption(o2, "rows", params, 3)
                         o4 == IntOption(o3, "rowheight", params, 4)
                     IN IF Len(params) > 5 THEN ("truncated" :> HasY(Part(params, 5))) @@ o4 ELSE o4]
         [] OTHER -> spec

CaseBarcode(p, cmd) ==
    LET lead == LeadingOrientation(SkipCommas(SubstringFrom(cmd, 3)))
        spec == BarcodeSpec(p, CharAt(Prefix(cmd), 1), lead.orientation, SplitOrEmpty(lead.rest))
    IN Result(IF spec.codeType # Undefined THEN SetPendingBarcode(p, spec) ELSE p, <<>>)

CaseFont(p, cmd) ==
    LET fontDesignator == IF Len(Prefix(cmd)) > 1 THEN CharAt(Prefix(cmd), 1) ELSE Undefined
        lead == LeadingOrientation(SkipCommas(SubstringFrom(cmd, 3)))
        fparts == SplitOrEmpty(lead.rest)
        fheight == IF Len(fparts) > 0 THEN ParseInt(Part(fparts, 0)) ELSE Undef
        fwidth == IF Len(fparts) > 1 THEN ParseInt(Part(fparts, 1)) ELSE Undef
    IN Result(SetFont(p, fontDesignator, lead.orientation, fheight, fwidth), <<>>)

(***************************************************************************)
(* analyze: the loop, one token per step                                   *)
(***************************************************************************)
\* the loop is running and the document has another token
Reading ==
    pc = "analyze" /\ Len(hist) < (IF profile \in DOMAIN Patterns THEN Len(Patterns[profile]) ELSE MaxCmds)
\* the token can come next and the loop body takes the branch `branch` on it
Reads(rawCmd, branch) ==
    /\ BranchOf[rawCmd] = branch
    /\ HasIntroducer(rawCmd) \/ hist = <<>>
    /\ profile \in DOMAIN Patterns => rawCmd \in Patterns[profile][Len(hist) + 1]
\* the end of a loop body that left the printer r.printer and pushed r.elements
Step(rawCmd, r) ==
    /\ printer' = r.printer
    /\ currentElements' = currentElements \o r.elements
    /\ hist' = Append(hist, rawCmd)
    /\ UNCHANGED <<labels, profile, pc, drawn, splitVars, fontVars, drawVars>>

\* mutant of PushLabel: an empty buffer is not pushed
PushLabelSkipsEmpty ==
    /\ labels' = IF currentElements = <<>> THEN labels ELSE Append(labels, [elements |-> currentElements])
    /\ currentElements' = <<>>
    /\ printer' = ClearNextPosition(ClearPendingBarcode(printer))
\* mutant of PushLabel: the pending barcode outlives the label
PushLabelKeepsBarcode ==
    /\ labels' = Append(labels, [elements |-> currentElements])
    /\ currentElements' = <<>>
    /\ printer' = ClearNextPosition(printer)
\* pushLabel: a copy of the buffer becomes a label, the buffer restarts empty
PushLabel ==
    /\ labels' = Append(labels, [elements |-> currentElements])
    /\ currentElements' = <<>>
    /\ printer' = ClearNextPosition(ClearPendingBarcode(printer))

\* cmd.length < 2: continue
AnalyzeSkip == Reading /\ \E rawCmd \in Vocabulary[profile] : Reads(rawCmd, "skip") /\ Step(rawCmd, Result(printer, <<>>))
\* mutant of AnalyzeXA: the buffer and the per-field state restart, the label home stays
AnalyzeXAKeepsHome ==
    Reading /\ \E rawCmd \in Vocabulary[profile] :
        /\ Reads(rawCmd, "XA")
        /\ printer' = [Reset EXCEPT !.labelHome = printer.labelHome]
        /\ currentElements' = <<>>
        /\ hist' = Append(hist, rawCmd)
        /\ UNCHANGED <<labels, profile, pc, drawn, splitVars, fontVars, drawVars>>
\* mutant of AnalyzeXA: the printer restarts, the buffer stays
AnalyzeXAKeepsBuffer ==
    Reading /\ \E rawCmd \in Vocabulary[profile] :
        /\ Reads(rawCmd, "XA")
        /\ printer' = Reset
        /\ hist' = Append(hist, rawCmd)
        /\ UNCHANGED <<currentElements, labels, profile, pc, drawn, splitVars, fontVars, drawVars>>
\* mutant of AnalyzeXA: the printer restarts with the graphics it has
AnalyzeXAKeepsGraphics ==
    Reading /\ \E rawCmd \in Vocabulary[profile] :
        /\ Reads(rawCmd, "XA")
        /\ printer' = [Reset EXCEPT !.graphics = printer.graphics]
        /\ currentElements' = <<>>
        /\ hist' = Append(hist, rawCmd)
        /\ UNCHANGED <<labels, profile, pc, drawn, splitVars, fontVars, drawVars>>
AnalyzeXA ==
    Reading /\ \E rawCmd \in Vocabulary[profile] :
        /\ Reads(rawCmd, "XA")
        /\ printer' = Reset
        /\ currentElements' = <<>>
        /\ hist' = Append(hist, rawCmd)
        /\ UNCHANGED <<labels, profile, pc, drawn, splitVars, fontVars, drawVars>>
AnalyzeXZ ==
    Reading /\ \E rawCmd \in Vocabulary[profile] :
        /\ Reads(rawCmd, "XZ")
        /\ PushLabel
        /\ hist' = Append(hist, rawCmd)
        /\ UNCHANGED <<profile, pc, drawn, splitVars, fontVars, drawVars>>
AnalyzeFO == Reading /\ \E rawCmd \in Vocabulary[profile] : Reads(rawCmd, "FO") /\ Step(rawCmd, CaseFO(printer, Trimmed[rawCmd]))
AnalyzeFT == Reading /\ \E rawCmd \in Vocabulary[profile] : Reads(rawCmd, "FT") /\ Step(rawCmd, CaseFT(printer, Trimmed[rawCmd]))
AnalyzeLH == Reading /\ \E rawCmd \in Vocabulary[profile] : Reads(rawCmd, "LH") /\ Step(rawCmd, CaseLH(printer, Trimmed[rawCmd]))
AnalyzeBY == Reading /\ \E rawCmd \in Vocabulary[profile] : Reads(rawCmd, "BY") /\ Step(rawCmd, CaseBY(printer, Trimmed[rawCmd]))
AnalyzeGB == Reading /\ \E rawCmd \in Vocabulary[profile] : Reads(rawCmd, "GB") /\ Step(rawCmd, CaseGB(printer, Trimmed[rawCmd]))
AnalyzeFR == Reading /\ \E rawCmd \in Vocabulary[profile] : Reads(rawCmd, "FR") /\ Step(rawCmd, CaseFR(printer, Trimmed[rawCmd]))
AnalyzeCF == Reading /\ \E rawCmd \in Vocabulary[profile] : Reads(rawCmd, "CF") /\ Step(rawCmd, CaseCF(printer, Trimmed[rawCmd]))
AnalyzeFW == Reading /\ \E rawCmd \in Vocabulary[profile] : Reads(rawCmd, "FW") /\ Step(rawCmd, CaseFW(printer, Trimmed[rawCmd]))
AnalyzeFB == Reading /\ \E rawCmd \in Vocabulary[profile] : Reads(rawCmd, "FB") /\ Step(rawCmd, CaseFB(printer, Trimmed[rawCmd]))
AnalyzeIM == Reading /\ \E rawCmd \in Vocabulary[profile] : Reads(rawCmd, "IM") /\ Step(rawCmd, CaseIM(printer, Trimmed[rawCmd]))
AnalyzeDG == Reading /\ \E rawCmd \in Vocabulary[profile] : Reads(rawCmd, "DG") /\ Step(rawCmd, CaseDG(printer, Trimmed[rawCmd]))
AnalyzeDY == Reading /\ \E rawCmd \in Vocabulary[profile] : Reads(rawCmd, "DY") /\ Step(rawCmd, CaseDY(printer, Trimmed[rawCmd]))
AnalyzeXG == Reading /\ \E rawCmd \in Vocabulary[profile] : Reads(rawCmd, "XG") /\ Step(rawCmd, CaseXG(printer, Trimmed[rawCmd]))
AnalyzeGC == Reading /\ \E rawCmd \in Vocabulary[profile] : Reads(rawCmd, "GC") /\ Step(rawCmd, CaseGC(printer, Trimmed[rawCmd]))
AnalyzeGD == Reading /\ \E rawCmd \in Vocabulary[profile] : Reads(rawCmd, "GD") /\ Step(rawCmd, CaseGD(printer, Trimmed[rawCmd]))
AnalyzeFD == Reading /\ \E rawCmd \in Vocabulary[profile] : Reads(rawCmd, "FD") /\ Step(rawCmd, CaseFD(printer, Trimmed[rawCmd]))
AnalyzeFS == Reading /\ \E rawCmd \in Vocabulary[profile] : Reads(rawCmd, "FS") /\ Step(rawCmd, CaseFS(printer, Trimmed[rawCmd]))
AnalyzeBarcode ==
    Reading /\ \E rawCmd \in Vocabulary[profile] : Reads(rawCmd, "B") /\ Step(rawCmd, CaseBarcode(printer, Trimmed[rawCmd]))
AnalyzeFont ==
    Reading /\ \E rawCmd \in Vocabulary[profile] : Reads(rawCmd, "A") /\ Step(rawCmd, CaseFont(printer, Trimmed[rawCmd]))
\* the default case with a designator that starts with neither B nor A
\* mutant of AnalyzeOther: the default case clears the armed position
AnalyzeOtherClearsPosition ==
    Reading /\ \E rawCmd \in Vocabulary[profile] :
        Reads(rawCmd, "other") /\ Step(rawCmd, Result(ClearNextPosition(printer), <<>>))
AnalyzeOther ==
    Reading /\ \E rawCmd \in Vocabulary[profile] : Reads(rawCmd, "other") /\ Step(rawCmd, Result(printer, <<>>))

\* after the last token: a non-empty buffer is pushed as a last label, and analyze returns
AnalyzeReturn ==
    /\ pc = "analyze"
    /\ IF Len(currentElements) > 0
       THEN PushLabel
       ELSE UNCHANGED <<labels, currentElements, printer>>
    /\ pc' = "analyzed"
    /\ UNCHANGED <<profile, hist, drawn, splitVars, fontVars, drawVars>>

(***************************************************************************)
(* render                                                                  *)
(***************************************************************************)
\* getDrawer(type) returns a drawer
HasDrawer(type) == type \in {"text", "box", "barcode", "circle", "diagonal", "image"}
\* drawElements: the elements its draw loop hands to a drawer, in order
DrawElements(els) == SelectSeq(els, LAMBDA el : HasDrawer(el.type))

\* no label: render throws
RenderThrows ==
    /\ pc = "analyzed"
    /\ Len(labels) = 0
    /\ pc' = "failed"
    /\ UNCHANGED <<profile, printer, labels, currentElements, hist, drawn, splitVars, fontVars, drawVars>>
\* mutant of RenderDraws: the last label is drawn
RenderDrawsLastLabel ==
    /\ pc = "analyzed"
    /\ Len(labels) > 0
    /\ drawn' = DrawElements(labels[Len(labels)].elements)
    /\ pc' = "rendered"
    /\ UNCHANGED <<profile, printer, labels, currentElements, hist, splitVars, fontVars, drawVars>>
\* render draws the first label and returns the buffer
RenderDraws ==
    /\ pc = "analyzed"
    /\ Len(labels) > 0
    /\ drawn' = DrawElements(labels[1].elements)
    /\ pc' = "rendered"
    /\ UNCHANGED <<profile, printer, labels, currentElements, hist, splitVars, fontVars, drawVars>>

(***************************************************************************)
(* font.ts: ensureFont.  The callers are the invocations of drawElements   *)
(* and of the drawers' prepare in flight in the process; JavaScript runs   *)
(* one of them at a time and switches between them at an await only.       *)
(***************************************************************************)
NumCallers == 2
MaxFontCalls == 2
Callers == 1..NumCallers
Faces == {"DejaVu Sans", "DejaVu Sans Bold", "DejaVu Sans Condensed Bold"}
\* the awaits of ensureFont
Suspended == {"normal", "bold", "condensed"}

\* mutant of EnsureFont: the memo flag is not consulted
EnsureFontAlwaysRegisters(c) ==
    /\ registered' = [f \in Faces |-> registered[f] + 1]
    /\ loading' = [loading EXCEPT !["DejaVu Sans"] = @ + 1]
    /\ fontPc' = [fontPc EXCEPT ![c] = "normal"]
    /\ UNCHANGED <<loaded, succeeded>>
\* the head of ensureFont, up to its first await: return when loaded, else
\* register the three faces and start the load of the normal one
EnsureFont(c) ==
    IF loaded
    THEN /\ fontPc' = [fontPc EXCEPT ![c] = "returned"]
         /\ succeeded' = TRUE
         /\ UNCHANGED <<loaded, registered, loading>>
    ELSE /\ registered' = [f \in Faces |-> registered[f] + 1]
         /\ loading' = [loading EXCEPT !["DejaVu Sans"] = @ + 1]
         /\ fontPc' = [fontPc EXCEPT ![c] = "normal"]
         /\ UNCHANGED <<loaded, succeeded>>
\* caller c calls ensureFont()
Calls(c) ==
    /\ fontPc[c] = "idle"
    /\ EnsureFont(c)
    /\ fontCalls' = [fontCalls EXCEPT ![c] = @ + 1]
    /\ overlap' = (overlap \/ \E d \in Callers : fontPc[d] \in Suspended)
    /\ UNCHANGED failed
\* await normalReg.load() settles: a rejection rejects ensureFont, loaded stays false
NormalLoaded(c) ==
    /\ fontPc[c] = "normal"
    /\ \E ok \in BOOLEAN :
         IF ok
         THEN /\ loading' = [loading EXCEPT !["DejaVu Sans Bold"] = @ + 1]
              /\ fontPc' = [fontPc EXCEPT ![c] = "bold"]
              /\ UNCHANGED failed
         ELSE /\ fontPc' = [fontPc EXCEPT ![c] = "rejected"]
              /\ failed' = TRUE
              /\ UNCHANGED loading
    /\ UNCHANGED <<loaded, registered, fontCalls, overlap, succeeded>>
\* await boldReg.load() settles; a rejection is caught and ignored
BoldLoaded(c) ==
    /\ fontPc[c] = "bold"
    /\ loading' = [loading EXCEPT !["DejaVu Sans Condensed Bold"] = @ + 1]
    /\ fontPc' = [fontPc EXCEPT ![c] = "condensed"]
    /\ UNCHANGED <<loaded, registered, fontCalls, overlap, succeeded, failed>>
\* await condensedBoldReg.load() settles, a rejection is caught and ignored; loaded = true
CondensedLoaded(c) ==
    /\ fontPc[c] = "condensed"
    /\ loaded' = TRUE
    /\ fontPc' = [fontPc EXCEPT ![c] = "returned"]
    /\ succeeded' = TRUE
    /\ UNCHANGED <<registered, loading, fontCalls, overlap, failed>>
\* the caller takes the settled promise and goes on
Continues(c) ==
    /\ fontPc[c] \in {"returned", "rejected"}
    /\ fontPc' = [fontPc EXCEPT ![c] = "idle"]
    /\ UNCHANGED <<loaded, registered, loading, fontCalls, overlap, succeeded, failed>>

FontCall ==
    \E c \in Callers :
        fontCalls[c] < MaxFontCalls /\ Calls(c) /\ UNCHANGED <<splitVars, analyzeVars, drawVars>>
FontNormalLoaded == \E c \in Callers : NormalLoaded(c) /\ UNCHANGED <<splitVars, analyzeVars, drawVars>>
FontBoldLoaded == \E c \in Callers : BoldLoaded(c) /\ UNCHANGED <<splitVars, analyzeVars, drawVars>>
FontCondensedLoaded == \E c \in Callers : CondensedLoaded(c) /\ UNCHANGED <<splitVars, analyzeVars, drawVars>>
FontContinue == \E c \in Callers : Continues(c) /\ UNCHANGED <<splitVars, analyzeVars, drawVars>>

\* the module as imported: nothing registered, no call made
FontIdle ==
    /\ loaded = FALSE
    /\ registered = [f \in Faces |-> 0]
    /\ loading = [f \in Faces |-> 0]
    /\ fontPc = [c \in Callers |-> "idle"]
    /\ fontCalls = [c \in Callers |-> 0]
    /\ overlap = FALSE
    /\ succeeded = FALSE
    /\ failed = FALSE
\* no drawElements invocation
DrawIdle ==
    /\ elements = <<>>
    /\ dpc = "idle"
    /\ idx = 0
    /\ await = "none"
    /\ canvas = None
    /\ paints = <<>>
    /\ trace = <<>>

(***************************************************************************)
(* The drawers.  prepare(element) is an operator from the element to the   *)
(* annotated element, draw(ctx, element) an operator to the painting       *)
(* operations it issues.  Lengths that prepare computes are held in        *)
(* quarter pixels, because the measure of a text is not a whole number of  *)
(* pixels; the analyzer's coordinates and dimensions are whole pixels.     *)
(***************************************************************************)
\* n pixels, in quarter pixels
Px(n) == IF IsNaN(n) \/ n = Undef THEN n ELSE 4 * n
\* Math.ceil of a length in quarter pixels, in pixels
Ceil(q) == (q + 3) \div 4
\* Math.round(a / b), b > 0
Round(a, b) == (2 * a + b) \div (2 * b)
\* !v of a number
Falsy(v) == v = 0 \/ IsNaN(v) \/ v = Undef
\* element[name], undefined when the element has no such field
Field(el, name) == IF name \in DOMAIN el THEN el[name] ELSE Undef
\* v || d
Or(v, d) == IF Falsy(v) THEN d ELSE v
\* element.fontName names font 0
IsFontZero(el) == "fontName" \in DOMAIN el /\ el.fontName # Undefined /\ ToUpperCase(el.fontName) = "0"

\* BoxDrawer
BoxPrepare(el) == [renderWidth |-> Px(el.width), renderHeight |-> Px(el.height)] @@ el
\* mutant of BoxDraw: a thickness that reaches one of the two dimensions fills
BoxDrawFillsBars(el) ==
    LET shouldFill == ToUpperCase(el.color) = "F"
                      \/ (~IsNaN(el.thickness) /\ ~IsNaN(el.width) /\ el.thickness >= el.width)
                      \/ (~IsNaN(el.thickness) /\ ~IsNaN(el.height) /\ el.thickness >= el.height)
        colour == IF el.reverse THEN "white" ELSE "black"
    IN IF shouldFill THEN << [op |-> "fillRect", colour |-> colour] >>
       ELSE << [op |-> "strokeRect", colour |-> colour, lineWidth |-> Or(el.thickness, 1)] >>
BoxDraw(el) ==
    LET shouldFill == ToUpperCase(el.color) = "F"
                      \/ (~IsNaN(el.thickness) /\ ~IsNaN(el.width) /\ ~IsNaN(el.height)
                          /\ el.thickness >= el.width /\ el.thickness >= el.height)
        colour == IF el.reverse THEN "white" ELSE "black"
    IN IF shouldFill THEN << [op |-> "fillRect", colour |-> colour] >>
       ELSE << [op |-> "strokeRect", colour |-> colour, lineWidth |-> Or(el.thickness, 1)] >>
\* CircleDrawer
CirclePrepare(el) == [renderWidth |-> Px(el.diameter), renderHeight |-> Px(el.diameter)] @@ el
CircleDraw(el) ==
    << [ op |-> IF el.thickness = 0 \/ el.color = "F" THEN "fill" ELSE "stroke", colour |-> "black" ] >>
\* DiagonalLineDrawer
DiagonalPrepare(el) == [renderWidth |-> Px(el.width), renderHeight |-> Px(el.height)] @@ el
DiagonalDraw(el) == << [ op |-> "stroke", colour |-> "black" ] >>

\* decodePng: what it can give for the bytes, None for a rejection.  The decoder is
\* outside the program; no bytes are no PNG.
Bitmaps == { [width |-> 2, height |-> 3] }
DecodePng(data) == IF data = <<>> THEN {None} ELSE {None} \cup {Some(b) : b \in Bitmaps}
\* ImageDrawer.prepare up to its await: nothing to decode when there is no graphic or
\* the graphic has no data
ImageHasData(el) == el.graphic # None /\ "data" \in DOMAIN el.graphic[1]
ImageUnprepared(el) == [image |-> None, renderWidth |-> 0, renderHeight |-> 0] @@ el
\* ImageDrawer.prepare after the await; a rejection of the decoder is caught
ImagePrepare(el, decoded) ==
    IF decoded = None THEN ImageUnprepared(el)
    ELSE [ image |-> decoded,
           renderWidth |-> Px(decoded[1].width * Or(el.scaleX, 1)),
           renderHeight |-> Px(decoded[1].height * Or(el.scaleY, 1)) ] @@ el
\* ImageDrawer.draw and BarcodeDrawer.draw: blit the bitmap, if any
BitmapDraw(el) == IF "image" \notin DOMAIN el \/ el.image = None THEN <<>> ELSE << [ op |-> "drawImage", colour |-> "bitmap" ] >>

\* ctx.measureText(text).width in quarter pixels: what the font can give; the empty
\* text measures 0
TextMeasures(text) == IF text = "" THEN {0} ELSE {40, 100}
\* mutant of TextPrepare: font 0 always takes the default scale
TextPrepareDefaultScaleOnly(el, measured) ==
    LET fontSize == Or(el.height, 10)
        scaleX == IF IsFontZero(el) THEN <<65, 100>> ELSE <<1, 1>>
    IN [ scaleX |-> scaleX,
         renderWidth |-> (measured * scaleX[1]) \div scaleX[2],
         renderHeight |-> Px(fontSize) ] @@ el
\* TextDrawer.prepare after ensureFont; scaleX is the pair <<numerator, denominator>>
TextPrepare(el, measured) ==
    LET fontSize == Or(el.height, 10)
        scaleX == IF IsFontZero(el)
                  THEN IF ~Falsy(el.width) /\ el.width > 0 /\ ~Falsy(el.height) /\ el.height > 0
                       THEN <<el.width, el.height>>
                       ELSE <<65, 100>>
                  ELSE <<1, 1>>
    IN [ scaleX |-> scaleX,
         renderWidth |-> (measured * scaleX[1]) \div scaleX[2],
         renderHeight |-> Px(fontSize) ] @@ el
\* TextDrawer.draw: font 0 is drawn three times for weight
TextDraw(el) ==
    LET once == [ op |-> "fillText", colour |-> "black" ]
    IN IF IsFontZero(el) THEN <<once, once, once>> ELSE <<once>>

\* the nine modules of each Code 39 character, n narrow and w wide: bars at the even
\* indices, spaces at the odd ones
CODE39_PATTERNS ==
    ("0" :> "nnnwwnwnn") @@ ("1" :> "wnnwnnnnw") @@ ("2" :> "nnwwnnnnw") @@ ("3" :> "wnwwnnnnn")
    @@ ("4" :> "nnnwwnnnw") @@ ("5" :> "wnnwwnnnn") @@ ("6" :> "nnwwwnnnn") @@ ("7" :> "nnnwnnwnw")
    @@ ("8" :> "wnnwnnwnn") @@ ("9" :> "nnwwnnwnn") @@ ("A" :> "wnnnnwnnw") @@ ("B" :> "nnwnnwnnw")
    @@ ("C" :> "wnwnnwnnn") @@ ("D" :> "nnnnwwnnw") @@ ("E" :> "wnnnwwnnn") @@ ("F" :> "nnwnwwnnn")
    @@ ("G" :> "nnnnnwwnw") @@ ("H" :> "wnnnnwwnn") @@ ("I" :> "nnwnnwwnn") @@ ("J" :> "nnnnwwwnn")
    @@ ("K" :> "wnnnnnnww") @@ ("L" :> "nnwnnnnww") @@ ("M" :> "wnwnnnnwn") @@ ("N" :> "nnnnwnnww")
    @@ ("O" :> "wnnnwnnwn") @@ ("P" :> "nnwnwnnwn") @@ ("Q" :> "nnnnnnwww") @@ ("R" :> "wnnnnnwwn")
    @@ ("S" :> "nnwnnnwwn") @@ ("T" :> "nnnnwnwwn") @@ ("U" :> "wwnnnnnnw") @@ ("V" :> "nwwnnnnnw")
    @@ ("W" :> "wwwnnnnnn") @@ ("X" :> "nwnnwnnnw") @@ ("Y" :> "wwnnwnnnn") @@ ("Z" :> "nwwnwnnnn")
    @@ ("-" :> "nwnnnnwnw") @@ ("." :> "wwnnnnwnn") @@ (" " :> "nwwnnnwnn") @@ ("$" :> "nwnwnwnnn")
    @@ ("/" :> "nwnwnnnwn") @@ ("+" :> "nwnnnwnwn") @@ ("%" :> "nnnwnwnwn") @@ ("*" :> "nwnnwnwnn")
\* CODE39_PATTERNS[ch] || CODE39_PATTERNS["-"]
Code39Pattern(ch) == IF ch \in DOMAIN CODE39_PATTERNS THEN CODE39_PATTERNS[ch] ELSE CODE39_PATTERNS["-"]
\* the string between the start and stop characters
Code39Encoded(el) == "*" \o ToUpperCase(el.text) \o "*"
RECURSIVE Code39Modules(_, _, _)
\* the loop that adds up totalModules from character i on: the modules of each
\* pattern, wide ones counting ratio, and one module between two characters
Code39Modules(encoded, i, ratio) ==
    IF i >= Len(encoded) THEN 0
    ELSE LET pat == Code39Pattern(CharAt(encoded, i))
             modules == [k \in 1..Len(pat) |-> IF CharAt(pat, k - 1) = "w" THEN ratio ELSE 1]
             sum[k \in 0..Len(pat)] == IF k = 0 THEN 0 ELSE sum[k - 1] + modules[k]
         IN sum[Len(pat)] + (IF i < Len(encoded) - 1 THEN 1 ELSE 0) + Code39Modules(encoded, i + 1, ratio)
RECURSIVE Code39Bars(_, _, _, _, _, _)
\* the loop that draws the bars, at module i of character ci with the running x: the
\* rectangles filled, as <<x, width>>
Code39Bars(encoded, ci, i, x, narrow, ratio) ==
    IF ci >= Len(encoded) THEN <<>>
    ELSE IF i >= 9 THEN Code39Bars(encoded, ci + 1, 0, IF ci < Len(encoded) - 1 THEN x + narrow ELSE x,
                                   narrow, ratio)
    ELSE LET pat == Code39Pattern(CharAt(encoded, ci))
             moduleWidth == (IF CharAt(pat, i) = "w" THEN ratio ELSE 1) * narrow
         IN (IF i % 2 = 0 THEN << <<x, moduleWidth>> >> ELSE <<>>)
            \o Code39Bars(encoded, ci, i + 1, x + moduleWidth, narrow, ratio)
\* mutant of Code39Image: no quiet zone is added after the last character
Code39ImageWithoutRightQuietZone(el) ==
    LET narrow == Or(el.moduleWidth, 2)
        ratio == Or(el.ratio, 2)
        heightDots == Or(el.height, 50)
        encoded == Code39Encoded(el)
    IN [ width |-> (10 + Code39Modules(encoded, 0, ratio)) * narrow, height |-> heightDots,
         bars |-> Code39Bars(encoded, 0, 0, 10 * narrow, narrow, ratio) ]
\* generateCode39Image: the size of the image and the bars filled in it
Code39Image(el) ==
    LET narrow == Or(el.moduleWidth, 2)
        ratio == Or(el.ratio, 2)
        heightDots == Or(el.height, 50)
        encoded == Code39Encoded(el)
        quietModules == 10
        totalModules == quietModules + Code39Modules(encoded, 0, ratio) + quietModules
    IN [ width |-> totalModules * narrow, height |-> heightDots,
         bars |-> Code39Bars(encoded, 0, 0, quietModules * narrow, narrow, ratio) ]
\* BarcodeDrawer.prepare, the code39 branch when generateCode39Image returns
Code39Prepare(el) ==
    LET img == Code39Image(el)
    IN [ image |-> Some(img), renderWidth |-> Px(img.width), renderHeight |-> Px(img.height),
         scaleFactor |-> <<1, 1>> ] @@ el
\* bwipjs.toBuffer and decodePng: the bitmaps they can give with the rows of the
\* first and the last ink, None when either rejects.  The engine has no symbol for
\* an empty text.
EngineBitmaps == { [width |-> 20, height |-> 12, top |-> 1, bottom |-> 10],
                   [width |-> 20, height |-> 12, top |-> 0 - 1, bottom |-> 0 - 1] }
Engine(el) == IF el.text = "" THEN {None} ELSE {None} \cup {Some(b) : b \in EngineBitmaps}
\* mutant of BarcodeFallback: the estimate leaves the module width out
BarcodeFallbackWithoutModuleWidth(el) ==
    [ renderWidth |-> Px((IF el.text # "" THEN Len(el.text) ELSE 1) * 10),
      renderHeight |-> Px(Or(el.height, 50)),
      image |-> None ] @@ el
\* BarcodeDrawer.prepare, the catch of the engine's try
BarcodeFallback(el) ==
    [ renderWidth |-> Px((IF el.text # "" THEN Len(el.text) ELSE 1) * Or(el.moduleWidth, 2) * 10),
      renderHeight |-> Px(Or(el.height, 50)),
      image |-> None ] @@ el
\* BarcodeDrawer.prepare after the engine's await
BarcodePrepare(el, engine) ==
    IF engine = None THEN BarcodeFallback(el)
    ELSE LET img == engine[1]
             scaled == el.codeType \notin {"qrcode", "datamatrix"} /\ ~Falsy(el.height)
             barHeightPx == img.bottom - img.top + 1
             scale == IF scaled /\ img.top >= 0 /\ img.bottom >= img.top
                      THEN <<el.height, barHeightPx>> ELSE <<1, 1>>
             atLeastOne(n) == IF n < 1 THEN 1 ELSE n
         IN IF scaled
            THEN [ image |-> Some([width |-> img.width, height |-> img.height]),
                   renderWidth |-> Px(atLeastOne(Round(img.width * scale[1], scale[2]))),
                   renderHeight |-> Px(atLeastOne(Round(img.height * scale[1], scale[2]))),
                   scaleFactor |-> scale ] @@ el
            ELSE [ image |-> Some([width |-> img.width, height |-> img.height]),
                   renderWidth |-> Px(img.width), renderHeight |-> Px(img.height),
                   scaleFactor |-> <<1, 1>> ] @@ el

\* the prepare of the drawers that do not suspend
ShapePrepare(el) ==
    CASE el.type = "box" -> BoxPrepare(el)
      [] el.type = "circle" -> CirclePrepare(el)
      [] el.type = "diagonal" -> DiagonalPrepare(el)
\* getDrawer(el.type).draw(ctx, el)
DrawerDraw(el) ==
    CASE el.type = "box" -> BoxDraw(el)
      [] el.type = "circle" -> CircleDraw(el)
      [] el.type = "diagonal" -> DiagonalDraw(el)
      [] el.type = "text" -> TextDraw(el)
      [] el.type \in {"image", "barcode"} -> BitmapDraw(el)

(***************************************************************************)
(* drawElements                                                            *)
(***************************************************************************)
MaxElements == 2
Margin == 4
\* the size the extent loop takes for the element, in quarter pixels: the prepared
\* size, or the element's own when either prepared dimension is falsy
LayoutSize(el) ==
    LET width == Field(el, "renderWidth")
        height == Field(el, "renderHeight")
    IN IF Falsy(width) \/ Falsy(height)
       THEN [w |-> Px(Or(Field(el, "width"), 0)), h |-> Px(Or(Field(el, "height"), 0))]
       ELSE [w |-> width, h |-> height]
\* el.orientation || "N"
Orientation(el) == IF "orientation" \in DOMAIN el /\ el.orientation # "" THEN el.orientation ELSE "N"
\* mutant of Rotated: no orientation swaps the size
RotatedNeverSwaps(el) == LayoutSize(el)
\* rotW and rotH
Rotated(el) ==
    LET s == LayoutSize(el)
    IN IF Orientation(el) \in {"R", "B"} THEN [w |-> s.h, h |-> s.w] ELSE s
RECURSIVE Extent(_, _)
\* the extent loop: maxX and maxY, in quarter pixels, after the elements els, from m
Extent(els, m) ==
    IF els = <<>> THEN m
    ELSE LET el == Head(els)
             ex == Px(el.x) + Rotated(el).w
             ey == Px(el.y) + Rotated(el).h
         IN Extent(Tail(els), [ maxX |-> IF ex > m.maxX THEN ex ELSE m.maxX,
                                maxY |-> IF ey > m.maxY THEN ey ELSE m.maxY ])
\* mutant of MakeCanvas: the margin is added to a content of one pixel at least
MakeCanvasAroundOnePixel(els) ==
    LET m == Extent(els, [maxX |-> 0, maxY |-> 0])
        atLeastOne(n) == IF n < 1 THEN 1 ELSE n
    IN [ width |-> atLeastOne(Ceil(m.maxX)) + Margin, height |-> atLeastOne(Ceil(m.maxY)) + Margin ]
\* the canvas PImage.make is asked for, in pixels
MakeCanvas(els) ==
    LET m == Extent(els, [maxX |-> 0, maxY |-> 0])
        canvasWidth == Ceil(m.maxX + Px(Margin))
        canvasHeight == Ceil(m.maxY + Px(Margin))
    IN [ width |-> IF canvasWidth > 0 THEN canvasWidth ELSE 1,
         height |-> IF canvasHeight > 0 THEN canvasHeight ELSE 1 ]

\* the elements drawElements is called with: what analyze emits for the commands,
\* and one element of a type no drawer knows
Emitted(r) == Head(r.elements)
AtFO == CaseFO(Reset, "^FO3,4").printer
DrawCatalogue ==
    { Emitted(CaseGB(CaseFR(AtFO, "^FR").printer, "^GB7,8,2")),
      Emitted(CaseGB(Reset, "^GB7,x,")),
      Emitted(CaseGB(Reset, "^GB10,10,10,B")),
      Emitted(CaseGB(Reset, "^GB7,8,2,F")),
      Emitted(CaseGB(Reset, "^GB7,8,7")),
      Emitted(CaseGB(AtFO, "^GB7,8,0")),
      Emitted(CaseGC(CaseFR(Reset, "^FR").printer, "^GC5,1")),
      Emitted(CaseGD(AtFO, "^GD4,4,1,W")),
      Emitted(CaseXG(CaseFW(CaseDY(Reset, "~DYR:A,P,P,1,,8950").printer, "^FWB").printer, "^XGR:A,2,2")),
      Emitted(CaseIM(CaseDY(Reset, "~DYR:L.PNG,P,P,4,,,89504E470D0A1A0A").printer, "^IMR:L.PNG")),
      Emitted(CaseIM(CaseFR(Reset, "^FR").printer, "^IMR:A")),
      Emitted(CaseFD(CaseFont(AtFO, "^A0R,20,10").printer, "^FDab")),
      Emitted(CaseFD(CaseFont(Reset, "^AAN,20,10").printer, "^FD")),
      Emitted(CaseFD(CaseBarcode(AtFO, "^BCN,30").printer, "^FDq")),
      Emitted(CaseFD(CaseBarcode(Reset, "^BCN,30").printer, "^FD")),
      Emitted(CaseFD(CaseBarcode(Reset, "^B3R,N,40").printer, "^FDq")),
      [type |-> "line", x |-> 9, y |-> 9, width |-> 5, height |-> 5] }
ElementLists == UNION {[1..n -> DrawCatalogue] : n \in 0..MaxElements}

Event(ev, i) == [ev |-> ev, el |-> i]
\* the prepare loop is at an element and no prepare is suspended
Preparing == dpc = "prepare" /\ await = "none" /\ idx <= Len(elements)
\* mutant of PreparesDone: the prepare loop can be left at any element
PreparesDoneEarly == dpc = "prepare" /\ await = "none"
\* the prepare loop has run over all elements
PreparesDone == dpc = "prepare" /\ await = "none" /\ idx > Len(elements)

\* await ensureFont()
DrawStart ==
    /\ dpc = "start"
    /\ Calls(1)
    /\ dpc' = "font"
    /\ UNCHANGED <<elements, idx, await, canvas, paints, trace, splitVars, analyzeVars>>
\* ensureFont has settled: the prepare loop starts, or drawElements rejects
DrawFontSettled ==
    /\ dpc = "font"
    /\ Continues(1)
    /\ dpc' = IF fontPc[1] = "returned" THEN "prepare" ELSE "rejected"
    /\ idx' = 1
    /\ UNCHANGED <<elements, await, canvas, paints, trace, splitVars, analyzeVars>>
\* getDrawer gives no drawer: the element is not prepared
PrepareSkip ==
    /\ Preparing
    /\ ~HasDrawer(elements[idx].type)
    /\ idx' = idx + 1
    /\ UNCHANGED <<elements, dpc, await, canvas, paints, trace, fontVars, splitVars, analyzeVars>>
\* box, circle, diagonal: prepare has no await
PrepareShape ==
    /\ Preparing
    /\ elements[idx].type \in {"box", "circle", "diagonal"}
    /\ elements' = [elements EXCEPT ![idx] = ShapePrepare(@)]
    /\ trace' = trace \o <<Event("prepare", idx), Event("prepared", idx)>>
    /\ idx' = idx + 1
    /\ UNCHANGED <<dpc, await, canvas, paints, fontVars, splitVars, analyzeVars>>
\* ImageDrawer.prepare up to await decodePng, or to its end when there is nothing to decode
PrepareImage ==
    /\ Preparing
    /\ elements[idx].type = "image"
    /\ elements' = [elements EXCEPT ![idx] = ImageUnprepared(@)]
    /\ IF ImageHasData(elements[idx])
       THEN /\ await' = "decode"
            /\ trace' = Append(trace, Event("prepare", idx))
            /\ idx' = idx
       ELSE /\ await' = "none"
            /\ trace' = trace \o <<Event("prepare", idx), Event("prepared", idx)>>
            /\ idx' = idx + 1
    /\ UNCHANGED <<dpc, canvas, paints, fontVars, splitVars, analyzeVars>>
PrepareImageDecoded ==
    /\ dpc = "prepare"
    /\ await = "decode"
    /\ \E decoded \in DecodePng(elements[idx].graphic[1].data) :
         elements' = [elements EXCEPT ![idx] = ImagePrepare(@, decoded)]
    /\ await' = "none"
    /\ trace' = Append(trace, Event("prepared", idx))
    /\ idx' = idx + 1
    /\ UNCHANGED <<dpc, canvas, paints, fontVars, splitVars, analyzeVars>>
\* TextDrawer.prepare up to await ensureFont()
PrepareText ==
    /\ Preparing
    /\ elements[idx].type = "text"
    /\ Calls(1)
    /\ await' = "font"
    /\ trace' = Append(trace, Event("prepare", idx))
    /\ UNCHANGED <<elements, dpc, idx, canvas, paints, splitVars, analyzeVars>>
PrepareTextMeasured ==
    /\ dpc = "prepare"
    /\ await = "font"
    /\ fontPc[1] = "returned"
    /\ Continues(1)
    /\ \E measured \in TextMeasures(elements[idx].text) :
         elements' = [elements EXCEPT ![idx] = TextPrepare(@, measured)]
    /\ await' = "none"
    /\ trace' = Append(trace, Event("prepared", idx))
    /\ idx' = idx + 1
    /\ UNCHANGED <<dpc, canvas, paints, splitVars, analyzeVars>>
\* BarcodeDrawer.prepare up to its first await: ensureFont() in generateCode39Image
\* for code39, the engine for the others
PrepareBarcode ==
    /\ Preparing
    /\ elements[idx].type = "barcode"
    /\ IF elements[idx].codeType = "code39"
       THEN Calls(1) /\ await' = "code39"
       ELSE await' = "engine" /\ UNCHANGED fontVars
    /\ trace' = Append(trace, Event("prepare", idx))
    /\ UNCHANGED <<elements, dpc, idx, canvas, paints, splitVars, analyzeVars>>
\* generateCode39Image after ensureFont(): it returns the image, or it throws and
\* prepare goes on to the engine
PrepareCode39 ==
    /\ dpc = "prepare"
    /\ await = "code39"
    /\ fontPc[1] = "returned"
    /\ Continues(1)
    /\ \E ok \in BOOLEAN :
         IF ok
         THEN /\ elements' = [elements EXCEPT ![idx] = Code39Prepare(@)]
              /\ await' = "none"
              /\ trace' = Append(trace, Event("prepared", idx))
              /\ idx' = idx + 1
         ELSE /\ await' = "engine"
              /\ UNCHANGED <<elements, trace, idx>>
    /\ UNCHANGED <<dpc, canvas, paints, splitVars, analyzeVars>>
\* the engine and the decoder have settled
PrepareEngine ==
    /\ dpc = "prepare"
    /\ await = "engine"
    /\ \E engine \in Engine(elements[idx]) :
         elements' = [elements EXCEPT ![idx] = BarcodePrepare(@, engine)]
    /\ await' = "none"
    /\ trace' = Append(trace, Event("prepared", idx))
    /\ idx' = idx + 1
    /\ UNCHANGED <<dpc, canvas, paints, fontVars, splitVars, analyzeVars>>
\* the extent loop, PImage.make and the white fill
Layout ==
    /\ PreparesDone
    /\ canvas' = Some(MakeCanvas(elements))
    /\ paints' = <<[el |-> 0, op |-> "fillRect", colour |-> "white"]>>
    /\ dpc' = "draw"
    /\ idx' = 1
    /\ UNCHANGED <<elements, await, trace, fontVars, splitVars, analyzeVars>>
\* getDrawer gives no drawer: the element is not drawn
DrawSkip ==
    /\ dpc = "draw"
    /\ idx <= Len(elements)
    /\ ~HasDrawer(elements[idx].type)
    /\ idx' = idx + 1
    /\ UNCHANGED <<elements, dpc, await, canvas, paints, trace, fontVars, splitVars, analyzeVars>>
\* drawer.draw(ctx, el)
\* mutant of DrawElement: the draw loop marks the element it has drawn
DrawElementMarksElement ==
    /\ dpc = "draw"
    /\ idx <= Len(elements)
    /\ HasDrawer(elements[idx].type)
    /\ paints' = paints \o [i \in 1..Len(DrawerDraw(elements[idx])) |-> [el |-> idx] @@ DrawerDraw(elements[idx])[i]]
    /\ elements' = [elements EXCEPT ![idx] = [drawn |-> TRUE] @@ @]
    /\ trace' = Append(trace, Event("draw", idx))
    /\ idx' = idx + 1
    /\ UNCHANGED <<dpc, await, canvas, fontVars, splitVars, analyzeVars>>
DrawElement ==
    /\ dpc = "draw"
    /\ idx <= Len(elements)
    /\ HasDrawer(elements[idx].type)
    /\ paints' = paints \o [i \in 1..Len(DrawerDraw(elements[idx])) |-> [el |-> idx] @@ DrawerDraw(elements[idx])[i]]
    /\ trace' = Append(trace, Event("draw", idx))
    /\ idx' = idx + 1
    /\ UNCHANGED <<elements, dpc, await, canvas, fontVars, splitVars, analyzeVars>>
\* await PImage.encodePNGToStream
Encode ==
    /\ dpc = "draw"
    /\ idx > Len(elements)
    /\ trace' = Append(trace, Event("encode", 0))
    /\ dpc' = "done"
    /\ UNCHANGED <<elements, idx, await, canvas, paints, fontVars, splitVars, analyzeVars>>

(***************************************************************************)
(* Specifications                                                          *)
(***************************************************************************)
\* render(zpl) on a document of any family
Init ==
    /\ zpl = ""
    /\ commands = <<>>
    /\ splitDone = TRUE
    /\ profile \in Profiles
    /\ printer = Reset
    /\ labels = <<>>
    /\ currentElements = <<>>
    /\ hist = <<>>
    /\ pc = "analyze"
    /\ drawn = <<>>
    /\ FontIdle
    /\ DrawIdle

Next ==
    \/ AnalyzeSkip \/ AnalyzeXA \/ AnalyzeXZ \/ AnalyzeFO \/ AnalyzeFT \/ AnalyzeLH
    \/ AnalyzeBY \/ AnalyzeGB \/ AnalyzeFR \/ AnalyzeCF \/ AnalyzeFW \/ AnalyzeFB
    \/ AnalyzeIM \/ AnalyzeDG \/ AnalyzeDY \/ AnalyzeXG \/ AnalyzeGC \/ AnalyzeGD
    \/ AnalyzeFD \/ AnalyzeFS \/ AnalyzeBarcode \/ AnalyzeFont \/ AnalyzeOther
    \/ AnalyzeReturn \/ RenderThrows \/ RenderDraws

Spec == Init /\ [][Next]_vars

\* splitZplCommands(zpl) on every string of at most MaxZplLen characters
InitSplit ==
    /\ zpl \in StringsUpTo(MaxZplLen)
    /\ commands = <<>>
    /\ splitDone = FALSE
    /\ profile = "label"
    /\ printer = Reset
    /\ labels = <<>>
    /\ currentElements = <<>>
    /\ hist = <<>>
    /\ pc = "split"
    /\ drawn = <<>>
    /\ FontIdle
    /\ DrawIdle

NextSplit == SplitEmpty \/ SplitScan

SpecSplit == InitSplit /\ [][NextSplit]_vars

\* render is inside drawElements: no tokenizer, no analyzer
RenderInDraw ==
    /\ zpl = ""
    /\ commands = <<>>
    /\ splitDone = TRUE
    /\ profile = "label"
    /\ printer = Reset
    /\ labels = <<>>
    /\ currentElements = <<>>
    /\ hist = <<>>
    /\ pc = "draw"
    /\ drawn = <<>>

\* ensureFont called by NumCallers callers, each up to MaxFontCalls times, in every
\* interleaving the awaits allow
InitFont == RenderInDraw /\ FontIdle /\ DrawIdle

NextFont == FontCall \/ FontNormalLoaded \/ FontBoldLoaded \/ FontCondensedLoaded \/ FontContinue

SpecFont == InitFont /\ [][NextFont]_vars

\* drawElements(elements) on every list of at most MaxElements elements
InitDraw ==
    /\ RenderInDraw
    /\ FontIdle
    /\ elements \in ElementLists
    /\ dpc = "start"
    /\ idx = 0
    /\ await = "none"
    /\ canvas = None
    /\ paints = <<>>
    /\ trace = <<>>

NextDraw ==
    \/ DrawStart \/ FontNormalLoaded \/ FontBoldLoaded \/ FontCondensedLoaded \/ DrawFontSettled
    \/ PrepareSkip \/ PrepareShape \/ PrepareImage \/ PrepareImageDecoded \/ PrepareText
    \/ PrepareTextMeasured \/ PrepareBarcode \/ PrepareCode39 \/ PrepareEngine
    \/ Layout \/ DrawSkip \/ DrawElement \/ Encode

SpecDraw == InitDraw /\ [][NextDraw]_vars

\* drawElements on one Code 39 element as analyze emits it: a text of every character
\* of the table, of characters the table lacks, in lower case, of 0 to 4 characters,
\* under the barcode defaults of three ^BY commands and three ^B3 commands
Code39Characters ==
    { "0", "1", "2", "3", "4", "5", "6", "7", "8", "9", "A", "B", "C", "D", "E", "F", "G", "H", "I",
      "J", "K", "L", "M", "N", "O", "P", "Q", "R", "S", "T", "U", "V", "W", "X", "Y", "Z", "-", ".",
      "$", "/", "+", "%", "*" }
Code39Texts == {""} \cup Code39Characters \cup {"a", "q", "_", "#", "12", "123", "A B", "ab-1"}
Code39Elements ==
    { Emitted(CaseFD(CaseBarcode(CaseBY(Reset, by).printer, b3).printer, "^FD" \o text)) :
        by \in {"^BY", "^BY1,2", "^BY3,3,7"}, b3 \in {"^B3N,N,40", "^B3R,N,9,N", "^B3"},
        text \in Code39Texts }
InitCode39 ==
    /\ RenderInDraw
    /\ FontIdle
    /\ elements \in {<<el>> : el \in Code39Elements}
    /\ dpc = "start"
    /\ idx = 0
    /\ await = "none"
    /\ canvas = None
    /\ paints = <<>>
    /\ trace = <<>>

NextCode39 ==
    \/ DrawStart \/ FontNormalLoaded \/ FontBoldLoaded \/ FontCondensedLoaded \/ DrawFontSettled
    \/ PrepareBarcode \/ PrepareCode39 \/ PrepareEngine
    \/ Layout \/ DrawElement \/ Encode

SpecCode39 == InitCode39 /\ [][NextCode39]_vars

\* render(zpl): analyze, then drawElements(labels[0].elements), on the documents of
\* the family "render"
RenderDrawElements ==
    /\ pc = "analyzed"
    /\ Len(labels) > 0
    /\ dpc = "idle"
    /\ elements' = labels[1].elements
    /\ dpc' = "start"
    /\ pc' = "draw"
    /\ UNCHANGED <<profile, printer, labels, currentElements, hist, drawn, idx, await, canvas, paints,
                   trace, splitVars, fontVars>>
InitRender == Init /\ profile = "render"

NextRender ==
    \/ AnalyzeXA \/ AnalyzeXZ \/ AnalyzeFO \/ AnalyzeFR \/ AnalyzeGB \/ AnalyzeGC \/ AnalyzeGD
    \/ AnalyzeFD \/ AnalyzeReturn \/ RenderThrows \/ RenderDrawElements
    \/ DrawStart \/ FontNormalLoaded \/ FontBoldLoaded \/ FontCondensedLoaded \/ DrawFontSettled
    \/ PrepareShape \/ PrepareText \/ PrepareTextMeasured
    \/ Layout \/ DrawElement \/ Encode

SpecRender == InitRender /\ [][NextRender]_vars

(***************************************************************************)
(* Properties: vocabulary of the statements                                *)
(***************************************************************************)
Last(h) == h[Len(h)]
\* the strings of ss, one after the other
RECURSIVE Concat(_)
Concat(ss) == IF ss = <<>> THEN "" ELSE Head(ss) \o Concat(Tail(ss))
\* the branches whose commands push elements
Emitters == {"GB", "GC", "GD", "IM", "XG", "FD"}
\* the analyzer has just read a token that took one of the branches bs
JustRead(bs) == pc = "analyze" /\ hist # <<>> /\ BranchOf[Last(hist)] \in bs
\* the step reads a token
ReadsToken == pc = "analyze" /\ Len(hist') = Len(hist) + 1
\* the elements the step pushed
Pushed == SubSeq(currentElements', Len(currentElements) + 1, Len(currentElements'))
\* element.reverse as the drawers read it: an absent field is falsy
IsReverse(el) == "reverse" \in DOMAIN el /\ el.reverse
\* the number of indices of h that satisfy Test
CountIf(h, Test(_)) == Cardinality({i \in 1..Len(h) : Test(h[i])})
\* the index of the last token of h that took one of the branches bs; 0 when none did
LastIndexOf(h, bs) ==
    IF \E i \in 1..Len(h) : BranchOf[h[i]] \in bs
    THEN CHOOSE i \in 1..Len(h) : BranchOf[h[i]] \in bs /\ \A j \in (i + 1)..Len(h) : BranchOf[h[j]] \notin bs
    ELSE 0
\* the tokens of h after index i
After(h, i) == SubSeq(h, i + 1, Len(h))
NumXZ(h) == CountIf(h, LAMBDA t : BranchOf[t] = "XZ")
\* an element-producing command follows the last token of h that took a branch of bs
EmitterAfterLast(h, bs) == \E i \in (LastIndexOf(h, bs) + 1)..Len(h) : BranchOf[h[i]] \in Emitters

(***************************************************************************)
(* C1, C2: splitZplCommands                                                *)
(***************************************************************************)
\* C1: for every input string, the tokens splitZplCommands returns, concatenated in
\* order, are the input with its LF, FF and CR characters removed
C1_ConcatIsCleanInput == splitDone => Concat(commands) = StripVertical(zpl)
\* an input with vertical white space inside a token has been split into two tokens
C1_Witness ==
    /\ splitDone
    /\ Len(commands) = 2
    /\ Len(zpl) > Len(Concat(commands))

\* C2: every token splitZplCommands returns is non-empty, starts with ^ or ~ and holds
\* no other ^ or ~, also for an input with characters before the first introducer
C2_TokensStartWithIntroducer ==
    splitDone =>
        \A i \in 1..Len(commands) :
            /\ Len(commands[i]) > 0
            /\ HasIntroducer(commands[i])
            /\ \A k \in 1..(Len(commands[i]) - 1) : CharAt(commands[i], k) \notin Introducers

(***************************************************************************)
(* C3, C4: labels and render                                               *)
(***************************************************************************)
\* C3 as claimed: analyze returns at least as many labels as there are ^XZ tokens, and
\* exactly as many iff no element-producing command follows the last ^XZ
C3_LabelsEqualXZIffNoEmitterAfterXZ ==
    pc = "analyzed" =>
        /\ Len(labels) >= NumXZ(hist)
        /\ (Len(labels) = NumXZ(hist)) <=> ~EmitterAfterLast(hist, {"XZ"})
\* C3 as amended: analyze returns at least as many labels as there are ^XZ tokens, and
\* exactly as many iff no element-producing command follows the last ^XZ or ^XA token,
\* whichever is later; otherwise the buffer at the end of the document is non-empty and
\* is returned as one more, last, label
C3_LabelsEqualXZIffBufferEmpty ==
    /\ pc = "analyze" =>
        /\ Len(labels) = NumXZ(hist)
        /\ (currentElements # <<>>) <=> EmitterAfterLast(hist, {"XZ", "XA"})
    /\ pc = "analyzed" =>
        /\ Len(labels) >= NumXZ(hist)
        /\ (Len(labels) = NumXZ(hist)) <=> ~EmitterAfterLast(hist, {"XZ", "XA"})
        /\ EmitterAfterLast(hist, {"XZ", "XA"}) =>
             /\ Len(labels) = NumXZ(hist) + 1
             /\ Last(labels).elements # <<>>
\* analyze returned for a document with a ^XZ, then an element, and no later ^XA
C3_Witness ==
    /\ pc = "analyzed"
    /\ NumXZ(hist) = 1
    /\ Len(labels) = 2
    /\ Last(labels).elements # <<>>

C4_WitnessEmptyLabel == pc = "rendered" /\ labels[1].elements = <<>> /\ Len(labels) = 2

(***************************************************************************)
(* C5, C6: reset and unknown commands                                      *)
(***************************************************************************)
\* C5: right after a ^XA, whatever came before it, the printer has font 0 of height
\* 10 and width 0 with orientation N, barcode defaults 2, 3, 50, label home (0,0), no
\* next position, pending barcode, field block or field orientation, and
\* reverseNext false
C5_StateAfterXA ==
    JustRead({"XA"}) =>
        /\ printer.fontName = "0" /\ printer.fontHeight = 10 /\ printer.fontWidth = 0
        /\ printer.orientation = "N"
        /\ printer.barcodeModuleWidth = 2 /\ printer.barcodeRatio = 3 /\ printer.barcodeHeight = 50
        /\ printer.labelHome = [x |-> 0, y |-> 0]
        /\ printer.nextPosition = None /\ printer.pendingBarcode = None
        /\ printer.fieldBlock = None /\ printer.fieldOrientation = Null
        /\ printer.reverseNext = FALSE
\* a ^XA read after a label home, a font, a field orientation and a field block were set
C5_Witness ==
    /\ JustRead({"XA"})
    /\ Len(hist) = 4
    /\ BranchOf[hist[1]] = "LH"
    /\ BranchOf[hist[2]] = "FW"
    /\ BranchOf[hist[3]] = "FB"

\* the letters after ^B that select a barcode type
BarcodeLetters == {"C", "D", "3", "E", "8", "9", "A", "2", "Q", "X", "7"}
\* the designator of the token is outside the recognized subset
Unrecognized(tok) ==
    LET d == Prefix(Trim(tok))
    IN /\ d \notin SwitchCases \cup {"XA", "XZ"}
       /\ ~(CharAt(d, 0) = "B" /\ CharAt(d, 1) \in BarcodeLetters)
       /\ CharAt(d, 0) # "A"
\* C6: a token whose designator is outside the recognized subset, ^B with an unknown
\* letter included, leaves the printer, the element buffer and the labels as they were
C6_UnknownChangesNothing ==
    [][ReadsToken /\ Unrecognized(Last(hist')) => UNCHANGED <<printer, currentElements, labels>>]_vars
\* a ^B with an unknown letter was read with an element in the buffer and state set
C6_Witness ==
    /\ JustRead({"B"})
    /\ Unrecognized(Last(hist))
    /\ currentElements # <<>>
    /\ printer # Reset

(***************************************************************************)
(* C7, C8: the next position                                               *)
(***************************************************************************)
\* C7: right after each of ^GB, ^GC, ^GD, ^IM, ^XG, ^FD and after ^FS no position is armed
C7_PositionClearedAfterElement == JustRead(Emitters \cup {"FS"}) => printer.nextPosition = None
\* a ^GC was read right after a ^FO and stands at the ^FO's position
C7_Witness ==
    /\ JustRead({"GC"})
    /\ Len(hist) >= 2
    /\ BranchOf[hist[Len(hist) - 1]] = "FO"
    /\ Last(currentElements).x > 0

\* the coordinates a ^FO or ^FT token gives
TokenX(tok) == OrElse(ParseInt(Part(Params(Trim(tok)), 0)), 0)
TokenY(tok) == OrElse(ParseInt(Part(Params(Trim(tok)), 1)), 0)
\* ^FO and ^FT arm the position labelHome + (x, y)
ArmedAtHomePlusCoordinates ==
    JustRead({"FO", "FT"}) =>
        /\ printer.nextPosition # None
        /\ printer.nextPosition[1].x = printer.labelHome.x + TokenX(Last(hist))
        /\ printer.nextPosition[1].y = printer.labelHome.y + TokenY(Last(hist))
\* the step is an element-producing command read with a position armed
EmitsAtArmedPosition == ReadsToken /\ BranchOf[Last(hist')] \in Emitters /\ printer.nextPosition # None
\* every element the step pushed is at the armed position
PushedAtPosition ==
    \A i \in 1..Len(Pushed) :
        Pushed[i].x = printer.nextPosition[1].x /\ Pushed[i].y = printer.nextPosition[1].y
\* the step is a ^FD that wraps its text into a field block
IsBlockText == BranchOf[Last(hist')] = "FD" /\ printer.pendingBarcode = None /\ printer.fieldBlock # None
\* line i (from 0) of the n lines a field-block ^FD pushed is at
\* (pos.x + (0 if i = 0 else indent), pos.y + offsetY + i * (h + s))
PushedAsBlockLines ==
    LET block == printer.fieldBlock[1]
        n == Len(Pushed)
        pitch == printer.fontHeight + block.lineSpacing
        offsetY == IF block.lines > n THEN ((block.lines - n) * pitch) \div 2 ELSE 0
    IN \A i \in 1..n :
           /\ Pushed[i].x = printer.nextPosition[1].x + (IF i = 1 THEN 0 ELSE block.indent)
           /\ Pushed[i].y = printer.nextPosition[1].y + offsetY + (i - 1) * pitch
\* C8 as claimed: with a position armed, every emitted element, the lines of a
\* field-block ^FD included, is at exactly that position, labelHome + the ^FO/^FT coordinates
C8_EveryElementAtPosition ==
    [](ArmedAtHomePlusCoordinates) /\ [][EmitsAtArmedPosition => PushedAtPosition]_vars
\* C8 as amended: with a position armed, every emitted element other than the lines of
\* a field-block ^FD is at exactly that position, labelHome + the ^FO/^FT coordinates; line
\* i of a field-block ^FD is at (pos.x + (0 if i = 0 else indent), pos.y + offsetY + i*(h+s))
C8_ElementAtPositionOrBlockLine ==
    /\ [](ArmedAtHomePlusCoordinates)
    /\ [][EmitsAtArmedPosition => IF IsBlockText THEN PushedAsBlockLines ELSE PushedAtPosition]_vars
\* a field-block ^FD pushed two lines at an armed position away from a non-zero label home
C8_Witness ==
    /\ JustRead({"FD"})
    /\ Len(hist) = 4
    /\ BranchOf[hist[1]] = "LH"
    /\ BranchOf[hist[2]] \in {"FO", "FT"}
    /\ BranchOf[hist[3]] = "FB"
    /\ Len(currentElements) = 2
    /\ currentElements[2].x # currentElements[1].x

(***************************************************************************)
(* C9, C10: reverse                                                        *)
(***************************************************************************)
\* C9: with reverseNext armed, the next element-producing command of any kind pushes
\* elements with reverse = true and leaves reverseNext false
C9_ReverseConsumedByNextElement ==
    [][ReadsToken /\ BranchOf[Last(hist')] \in Emitters /\ printer.reverseNext =>
          /\ ~printer'.reverseNext
          /\ \A i \in 1..Len(Pushed) : IsReverse(Pushed[i])]_vars

\* the tokens read since the last ^XA
SinceXA == After(hist, LastIndexOf(hist, {"XA"}))
\* the elements emitted since the last ^XA: those of the labels pushed since, then the buffer
RECURSIVE ElementsOf(_)
ElementsOf(ls) == IF ls = <<>> THEN <<>> ELSE Head(ls).elements \o ElementsOf(Tail(ls))
EmittedSinceXA == ElementsOf(After(labels, Len(labels) - NumXZ(SinceXA))) \o currentElements
\* the ^FR and element-producing tokens of h, in order
FRAndEmitters(h) == SelectSeq(h, LAMBDA t : BranchOf[t] \in Emitters \cup {"FR"})
\* the number of runs of ^FR tokens of h with no element-producing token inside
NumFRRuns(h) ==
    LET f == FRAndEmitters(h)
    IN Cardinality({i \in 1..Len(f) : BranchOf[f[i]] = "FR" /\ (i = 1 \/ BranchOf[f[i - 1]] # "FR")})
\* C10: the elements with reverse = true emitted since the last ^XA are never more than
\* the ^FR commands read since, nor more than the runs of ^FR commands with no
\* element between them
C10_ReverseAtMostOncePerFR ==
    pc = "analyze" =>
        /\ CountIf(EmittedSinceXA, IsReverse) <= CountIf(SinceXA, LAMBDA t : BranchOf[t] = "FR")
        /\ CountIf(EmittedSinceXA, IsReverse) <= NumFRRuns(SinceXA)
\* two ^FR in a row, then two boxes: one reversed element
C10_Witness ==
    /\ pc = "analyze"
    /\ Len(hist) = 4
    /\ BranchOf[hist[1]] = "FR" /\ BranchOf[hist[2]] = "FR"
    /\ BranchOf[hist[3]] = "GB" /\ BranchOf[hist[4]] = "GB"
    /\ CountIf(currentElements, IsReverse) = 1

(***************************************************************************)
(* C11..C14: pending barcode, field block, ^FS                             *)
(***************************************************************************)
\* the token read k tokens before the last one took one of the branches bs
ReadBefore(k, bs) == Len(hist) > k /\ BranchOf[hist[Len(hist) - k]] \in bs
\* the element carries the fields of a field-block line
IsBlockLine(el) == "blockWidth" \in DOMAIN el /\ "blockAlign" \in DOMAIN el
\* C11 as claimed: right after every ^XZ no barcode is pending, no field block is
\* armed and no position is armed
C11_PendingStateClearedAfterXZ ==
    JustRead({"XZ"}) =>
        /\ printer.pendingBarcode = None
        /\ printer.fieldBlock = None
        /\ printer.nextPosition = None
\* C11 as amended: right after every ^XZ no barcode is pending and no position is
\* armed, so a ^FD right after the ^XZ emits text whatever ^Bx came before; a field
\* block armed before the ^XZ is still armed after it and wraps such a ^FD
C11_BarcodeAndPositionClearedAfterXZ ==
    /\ JustRead({"XZ"}) => printer.pendingBarcode = None /\ printer.nextPosition = None
    /\ JustRead({"XZ"}) /\ ReadBefore(1, {"FB"}) => printer.fieldBlock # None
    /\ JustRead({"FD"}) /\ ReadBefore(1, {"XZ"}) =>
         \A i \in 1..Len(currentElements) : currentElements[i].type = "text"
    /\ JustRead({"FD"}) /\ ReadBefore(1, {"XZ"}) /\ ReadBefore(2, {"FB"}) =>
         \A i \in 1..Len(currentElements) : IsBlockLine(currentElements[i])
\* a ^FD right after a ^XZ that followed a ^Bx emitted a text element
C11_Witness ==
    /\ JustRead({"FD"})
    /\ ReadBefore(1, {"XZ"})
    /\ ReadBefore(2, {"B"})
    /\ Len(currentElements) = 1
    /\ currentElements[1].type = "text"

\* the step pushed an element of the type
PushedType(type) == \E i \in 1..Len(Pushed) : Pushed[i].type = type
\* C12: a barcode element is emitted only by a ^FD read with a barcode pending; that
\* ^FD emits exactly one barcode element and no text and leaves no barcode pending; a
\* ^FD read with no barcode pending emits text elements only
C12_BarcodeOnlyFromArmedFD ==
    [][ReadsToken =>
          LET isFD == BranchOf[Last(hist')] = "FD"
              armed == printer.pendingBarcode # None
          IN /\ PushedType("barcode") => isFD /\ armed
             /\ isFD /\ armed =>
                  /\ Len(Pushed) = 1
                  /\ Pushed[1].type = "barcode"
                  /\ printer'.pendingBarcode = None
             /\ isFD /\ ~armed =>
                  /\ Len(Pushed) >= 1
                  /\ \A i \in 1..Len(Pushed) : Pushed[i].type = "text"]_vars
\* a ^FD right after a ^Bx emitted a barcode element, and a second ^FD a text element
C12_Witness ==
    /\ JustRead({"FD"})
    /\ ReadBefore(1, {"FD"})
    /\ ReadBefore(2, {"B"})
    /\ Len(currentElements) = 2
    /\ currentElements[1].type = "barcode"
    /\ currentElements[2].type = "text"
    /\ printer.pendingBarcode = None

\* C13: an armed field block is used by the first ^FD that emits text: its elements carry
\* the block's width and alignment, and the block is unset after it, so a later ^FD
\* text is one element without blockWidth; ^IM and ^XG unset the block; a ^FD that
\* emits a barcode leaves it as it was
C13_FieldBlockUsedOnce ==
    [][ReadsToken =>
          LET b == BranchOf[Last(hist')]
              text == b = "FD" /\ printer.pendingBarcode = None
          IN /\ b = "FB" => printer'.fieldBlock # None
             /\ text /\ printer.fieldBlock # None =>
                  /\ Len(Pushed) >= 1
                  /\ \A i \in 1..Len(Pushed) :
                       /\ IsBlockLine(Pushed[i])
                       /\ Pushed[i].blockWidth = printer.fieldBlock[1].width
                       /\ Pushed[i].blockAlign = printer.fieldBlock[1].align
                  /\ printer'.fieldBlock = None
             /\ text /\ printer.fieldBlock = None =>
                  /\ Len(Pushed) = 1
                  /\ "blockWidth" \notin DOMAIN Pushed[1]
                  /\ printer'.fieldBlock = None
             /\ b \in {"IM", "XG"} => printer'.fieldBlock = None
             /\ b = "FD" /\ printer.pendingBarcode # None => printer'.fieldBlock = printer.fieldBlock]_vars
\* after a ^FB, a ^FD emitted a barcode and the next ^FD the two lines of the block
C13_Witness ==
    /\ JustRead({"FD"})
    /\ ReadBefore(1, {"FD"})
    /\ ReadBefore(2, {"B"})
    /\ ReadBefore(3, {"FB"})
    /\ Len(currentElements) = 3
    /\ currentElements[1].type = "barcode"
    /\ IsBlockLine(currentElements[2]) /\ IsBlockLine(currentElements[3])
    /\ printer.fieldBlock = None

ParamsRead == Params(Trim(Last(hist')))
\* parameter k (from 0) of the token the step reads is missing or empty
AbsentParam(k) == Len(ParamsRead) <= k \/ Trim(Part(ParamsRead, k)) = ""
\* C15: a ^CF leaves the font name, the height and the width unchanged when the
\* field that gives it is absent, and never changes the orientation of later text
C15_AbsentFontFieldsUnchanged ==
    [][ReadsToken /\ BranchOf[Last(hist')] = "CF" =>
          /\ AbsentParam(0) => printer'.fontName = printer.fontName
          /\ AbsentParam(1) => printer'.fontHeight = printer.fontHeight
          /\ AbsentParam(2) => printer'.fontWidth = printer.fontWidth
          /\ GetFont(printer').orientation = GetFont(printer).orientation]_vars


\* parameter k of the ^BY the step reads is a number greater than zero
ValidParam(k) == ~AbsentParam(k) /\ ~IsNaN(ParseInt(Part(ParamsRead, k))) /\ ParseInt(Part(ParamsRead, k)) > 0
\* the value the ^BY gives to a default: parameter k when valid, else the old value
GivenOr(k, old) == IF ValidParam(k) THEN ParseInt(Part(ParamsRead, k)) ELSE old
\* C16: a ^BY replaces each of moduleWidth, ratio and height by its parameter when that
\* is a number greater than zero, leaves it unchanged when the parameter is missing,
\* empty, not a number or not greater than zero, and changes nothing else
C16_BYKeepsInvalidDefaults ==
    [][ReadsToken /\ BranchOf[Last(hist')] = "BY" =>
          printer' = [printer EXCEPT
                        !.barcodeModuleWidth = GivenOr(0, @),
                        !.barcodeRatio = GivenOr(1, @),
                        !.barcodeHeight = GivenOr(2, @)]]_vars
\* after ^BY3,2,40 a ^BY with only a ratio replaced the ratio and kept the other two
C16_Witness ==
    /\ JustRead({"BY"})
    /\ ReadBefore(1, {"BY"})
    /\ Last(hist) = "^BY,4,"
    /\ printer.barcodeModuleWidth = 3
    /\ printer.barcodeRatio = 4
    /\ printer.barcodeHeight = 40


\* the letter a ^FW token gives: the first character of its trimmed parameter, upper-cased
FWLetter(tok) == ToUpperCase(CharAt(Trim(SubstringFrom(Trim(tok), 3)), 0))
\* the token is a ^FW with one of the letters N, R, I, B
IsValidFW(tok) == BranchOf[tok] = "FW" /\ FWLetter(tok) \in {"N", "R", "I", "B"}
\* the letter of the last valid ^FW of h; Null when h has none
LastFWLetter(h) ==
    IF \E i \in 1..Len(h) : IsValidFW(h[i])
    THEN FWLetter(h[CHOOSE i \in 1..Len(h) : IsValidFW(h[i]) /\ \A j \in (i + 1)..Len(h) : ~IsValidFW(h[j])])
    ELSE Null
\* C17: the field orientation is the letter of the last valid ^FW read since the last
\* ^XA; while it is set every text element emitted has that orientation, whatever
\* the ^A commands gave before or after the ^FW; a ^FW with another letter leaves the
\* printer unchanged
C17_FieldOrientationOverridesFont ==
    /\ [](pc = "analyze" => printer.fieldOrientation = LastFWLetter(SinceXA))
    /\ [][ReadsToken /\ BranchOf[Last(hist')] = "FD" /\ printer.fieldOrientation # Null =>
            \A i \in 1..Len(Pushed) :
                Pushed[i].type = "text" => Pushed[i].orientation = printer.fieldOrientation]_vars
    /\ [][ReadsToken /\ BranchOf[Last(hist')] = "FW" /\ ~IsValidFW(Last(hist')) =>
            printer' = printer]_vars
\* ^A..R, ^FWB, ^A..I, then a ^FD: the text element has orientation B
C17_Witness ==
    /\ JustRead({"FD"})
    /\ Len(hist) = 4
    /\ BranchOf[hist[1]] = "A"
    /\ hist[2] = "^FWB"
    /\ hist[3] = "^AAI"
    /\ currentElements[1].type = "text"
    /\ currentElements[1].orientation = "B"
\* a ^FW with the letter x was read after ^FWB and left the orientation B
C17_WitnessInvalidLetter ==
    /\ JustRead({"FW"})
    /\ ~IsValidFW(Last(hist))
    /\ printer.fieldOrientation = "B"

(***************************************************************************)
(* C18, C19: shapes                                                        *)
(***************************************************************************)
\* parameter k of the token the step reads as an integer, the default when it is
\* absent, empty or not parseable
IntOrDefault(k, default) ==
    IF AbsentParam(k) \/ IsNaN(ParseInt(Part(ParamsRead, k))) THEN default
    ELSE ParseInt(Part(ParamsRead, k))
\* C18: the element of a ^GB, ^GC or ^GD has every numeric parameter that is absent,
\* empty or not parseable replaced by its default (^GB: w=0, h=0, t=1; ^GC: d=0,
\* t=0; ^GD: w=0, h=0, t=1), so its dimensions are integers
C18_ShapeParametersDefault ==
    [][ReadsToken /\ BranchOf[Last(hist')] \in {"GB", "GC", "GD"} =>
          /\ Len(Pushed) = 1
          /\ BranchOf[Last(hist')] \in {"GB", "GD"} =>
               /\ Pushed[1].width = IntOrDefault(0, 0)
               /\ Pushed[1].height = IntOrDefault(1, 0)
               /\ Pushed[1].thickness = IntOrDefault(2, 1)
          /\ BranchOf[Last(hist')] = "GC" =>
               /\ Pushed[1].diameter = IntOrDefault(0, 0)
               /\ Pushed[1].thickness = IntOrDefault(1, 0)]_vars


\* every element the step pushed is at (x, y)
PushedAt(x, y) == Len(Pushed) >= 1 /\ \A i \in 1..Len(Pushed) : Pushed[i].x = x /\ Pushed[i].y = y
\* C19: with no position armed ^GB, ^GC and ^GD emit at (0,0) whatever the label home,
\* and ^IM and ^XG emit at the label home; with a position armed all emit at it
C19_UnarmedShapesAtOriginImagesAtHome ==
    [][ReadsToken /\ BranchOf[Last(hist')] \in {"GB", "GC", "GD", "IM", "XG"} =>
          IF printer.nextPosition # None
          THEN PushedAt(printer.nextPosition[1].x, printer.nextPosition[1].y)
          ELSE IF BranchOf[Last(hist')] \in {"IM", "XG"}
          THEN PushedAt(printer.labelHome.x, printer.labelHome.y)
          ELSE PushedAt(0, 0)]_vars
\* with the label home at (1,2) and no position armed, a shape was emitted at (0,0) and
\* then an image at (1,2)
C19_Witness ==
    /\ JustRead({"IM", "XG"})
    /\ Len(hist) = 3
    /\ BranchOf[hist[1]] = "LH"
    /\ BranchOf[hist[2]] \in {"GB", "GC", "GD"}
    /\ printer.labelHome = [x |-> 1, y |-> 2]
    /\ currentElements[1].x = 0 /\ currentElements[1].y = 0
    /\ currentElements[2].x = 1 /\ currentElements[2].y = 2

(***************************************************************************)
(* C20: the payload of ^FD                                                 *)
(***************************************************************************)
\* C20: a ^FD read with no field block armed emits one element whose text is the
\* payload verbatim: every character of the token after ^FD, leading and trailing
\* spaces included
C20_PayloadVerbatim ==
    [][ReadsToken /\ BranchOf[Last(hist')] = "FD" /\ printer.fieldBlock = None =>
          /\ Len(Pushed) = 1
          /\ Pushed[1].text = SubstringFrom(Last(hist'), 3)]_vars


(***************************************************************************)
(* C21: ~DY                                                                *)
(***************************************************************************)
\* the fields of the ~DY token the analyzer has just read
DYFields == Params(Trimmed[Last(hist)])
\* C21: after a ~DY token with all seven fields name,f,b,x,t,w,hexData the graphic
\* stored under name has type png and its data are the bytes decoded from the
\* seventh field alone
C21_DYStoresBytesOfHexData ==
    JustRead({"DY"}) /\ Len(DYFields) = 7
    => LET name == Trim(DYFields[1])
       IN /\ name \in DOMAIN printer.graphics
          /\ printer.graphics[name].type = "png"
          /\ printer.graphics[name].data = HexDecode(Trim(DYFields[7]))

(***************************************************************************)
(* C24, C25: ensureFont                                                    *)
(***************************************************************************)
\* the ensureFont calls made so far, by all callers
RECURSIVE SumCalls(_)
SumCalls(cs) == IF cs = {} THEN 0 ELSE LET c == CHOOSE d \in cs : TRUE IN fontCalls[c] + SumCalls(cs \ {c})
\* C24: as long as the ensureFont calls are made one after the other (none starts while
\* another is suspended), once a call has returned normally no step of any further
\* call registers a font, starts a load or changes the memo flag
C24_SequentialCallsIdempotent ==
    [][(succeeded /\ ~overlap') => (registered' = registered /\ loading' = loading /\ loaded' = loaded)]_vars
\* two or more calls, made one after the other, have all returned normally and each
\* face is registered once and loaded once
C24_Witness ==
    /\ succeeded /\ ~overlap /\ ~failed
    /\ SumCalls(Callers) >= 2
    /\ \A c \in Callers : fontPc[c] \notin Suspended
    /\ \A f \in Faces : registered[f] = 1 /\ loading[f] = 1

\* C25: when no load fails, each face is registered at most once in the process,
\* however the ensureFont calls of the invocations in flight interleave
C25_EachFaceRegisteredOnce == ~failed => \A f \in Faces : registered[f] <= 1

(***************************************************************************)
(* C22, C23, C26, C27, C29: drawElements and the drawers                   *)
(***************************************************************************)
\* the greatest number of a finite non-empty set
SetMax(S) == CHOOSE m \in S : \A n \in S : n <= m
\* the elements getDrawer has a drawer for
WithDrawer == {i \in 1..Len(elements) : HasDrawer(elements[i].type)}
\* x + rotW and y + rotH of the element in quarter pixels, its size swapped for the
\* orientations R and B and not for N and I
RightEdge(el) == Px(el.x) + (IF Orientation(el) \in {"R", "B"} THEN LayoutSize(el).h ELSE LayoutSize(el).w)
BottomEdge(el) == Px(el.y) + (IF Orientation(el) \in {"R", "B"} THEN LayoutSize(el).w ELSE LayoutSize(el).h)
\* C22: for every element list the canvas is ceil(maxX + 4) wide and ceil(maxY + 4) high,
\* maxX the greatest x + rotW and maxY the greatest y + rotH over the elements, 0 when
\* no element extends past the origin
C22_CanvasIsExtentPlusMargin ==
    canvas # None
    => LET maxX == SetMax({0} \cup {RightEdge(elements[i]) : i \in 1..Len(elements)})
           maxY == SetMax({0} \cup {BottomEdge(elements[i]) : i \in 1..Len(elements)})
       IN canvas[1] = [width |-> Ceil(maxX + 4 * 4), height |-> Ceil(maxY + 4 * 4)]
\* a canvas whose width is set by an element turned by R or B, with the height it has
\* unturned, and whose height is not a whole number of pixels before the ceiling
C22_Witness ==
    /\ canvas # None
    /\ Len(elements) = 2
    /\ \E i \in 1..2 :
         /\ Orientation(elements[i]) \in {"R", "B"}
         /\ LayoutSize(elements[i]).w # LayoutSize(elements[i]).h
         /\ canvas[1].width = Ceil(Px(elements[i].x) + LayoutSize(elements[i]).h + 16)
         /\ canvas[1].width # Ceil(Px(elements[i].x) + LayoutSize(elements[i]).w + 16)
         /\ (Px(elements[i].y) + LayoutSize(elements[i]).w) % 4 # 0
         /\ canvas[1].height = Ceil(Px(elements[i].y) + LayoutSize(elements[i]).w + 16)


\* the events ev of the trace, in order
EventsOf(ev) == SelectSeq(trace, LAMBDA e : e.ev = ev)
\* the events of s are about elements of increasing index
Increasing(s) == \A i \in 1..(Len(s) - 1) : s[i].el < s[i + 1].el
\* the event e is in the trace before position i
Before(e, i) == \E k \in 1..(i - 1) : trace[k] = e
\* C23: within one drawElements call a prepare starts only when the one before it has
\* completed, the prepares run in emission order, each element with a drawer has been
\* prepared before the first draw, the draws run in emission order, the encoding comes
\* after the draw of every such element and is the last event, and an element of
\* unknown type is neither prepared nor drawn and stops nothing
C23_PrepareAllThenDrawAllThenEncode ==
    /\ \A i \in 1..Len(trace) :
         /\ trace[i].ev = "prepare" => (i = Len(trace) \/ trace[i + 1] = Event("prepared", trace[i].el))
         /\ trace[i].ev = "prepared" => (i > 1 /\ trace[i - 1] = Event("prepare", trace[i].el))
         /\ trace[i].ev = "draw" => \A j \in WithDrawer : Before(Event("prepared", j), i)
         /\ trace[i].ev = "encode" => (i = Len(trace) /\ \A j \in WithDrawer : Before(Event("draw", j), i))
         /\ trace[i].ev # "encode" => trace[i].el \in WithDrawer
    /\ Increasing(EventsOf("prepare"))
    /\ Increasing(EventsOf("draw"))
    /\ dpc = "done" => trace # <<>> /\ trace[Len(trace)].ev = "encode"
\* a call has returned for an element of unknown type followed by an image whose
\* prepare suspended on the decoder: the image was prepared, then drawn, then the
\* canvas encoded
C23_Witness ==
    /\ dpc = "done"
    /\ Len(elements) = 2
    /\ ~HasDrawer(elements[1].type)
    /\ elements[2].type = "image" /\ ImageHasData(elements[2])
    /\ trace = <<Event("prepare", 2), Event("prepared", 2), Event("draw", 2), Event("encode", 0)>>


\* C26: every painting operation of an element emitted with reverse = true is in white
\* and every painting operation of any other element is in black (a blit paints the
\* bitmap's own ink), whatever the element's type
C26_ReverseIsWhiteOthersBlack ==
    \A k \in 1..Len(paints) :
        paints[k].el > 0
        => IF IsReverse(elements[paints[k].el])
           THEN paints[k].colour = "white"
           ELSE paints[k].colour \in {"black", "bitmap"}

\* the barcodes whose prepare ended in the catch of the engine's try
FailedBarcodes ==
    {i \in 1..Len(elements) :
        elements[i].type = "barcode" /\ "image" \in DOMAIN elements[i] /\ elements[i].image = None}
\* the element has been prepared and drawn
PreparedAndDrawn(j) == Before(Event("prepared", j), Len(trace)) /\ Before(Event("draw", j), Len(trace))
\* C27 as stated: after a failure of the engine or of the decoder the barcode has
\* renderWidth = length(text) * moduleWidth * 10 and renderHeight = height, 50 when unset
C27_FallbackWidthIsTextLength ==
    \A i \in FailedBarcodes :
        /\ elements[i].renderWidth = Px(Len(elements[i].text) * elements[i].moduleWidth * 10)
        /\ elements[i].renderHeight = Px(IF Falsy(elements[i].height) THEN 50 ELSE elements[i].height)
\* C27: a failure of the barcode engine or of the decoder does not fail prepare: the
\* barcode gets renderWidth = n * moduleWidth * 10, n the length of the text and 1 for an
\* empty text, and renderHeight = height, 50 when unset, it has no bitmap and its draw
\* paints nothing, and the call goes on to prepare and draw every other element
C27_FallbackEstimateAndNoPaint ==
    \A i \in FailedBarcodes :
        /\ elements[i].renderWidth
             = Px((IF elements[i].text = "" THEN 1 ELSE Len(elements[i].text)) * elements[i].moduleWidth * 10)
        /\ elements[i].renderHeight = Px(IF Falsy(elements[i].height) THEN 50 ELSE elements[i].height)
        /\ \A k \in 1..Len(paints) : paints[k].el # i
        /\ dpc # "rejected"
        /\ dpc = "done" => \A j \in WithDrawer : PreparedAndDrawn(j)
\* a call has returned whose first element is a barcode with a text that the engine
\* failed on and whose second element was prepared and painted
C27_Witness ==
    /\ dpc = "done"
    /\ Len(elements) = 2
    /\ 1 \in FailedBarcodes
    /\ elements[1].text # ""
    /\ elements[2].type = "box"
    /\ \E k \in 1..Len(paints) : paints[k].el = 2
\* the engine failed on a barcode without text
C27_WitnessEmptyText == \E i \in FailedBarcodes : elements[i].text = "" /\ dpc = "done"

\* the call is on one image at (0,0) that had data and failed to decode
OnlyUndecodedImage ==
    /\ Len(elements) = 1
    /\ elements[1].type = "image"
    /\ elements[1].x = 0 /\ elements[1].y = 0
    /\ ImageHasData(elements[1])
    /\ "image" \in DOMAIN elements[1] /\ elements[1].image = None
\* C29 as stated: a label whose only element is an image at (0,0) that fails to decode
\* is rendered on a canvas of 5 x 5 pixels
C29_UndecodedImageCanvasIs5x5 ==
    (canvas # None /\ OnlyUndecodedImage) => canvas[1] = [width |-> 5, height |-> 5]
\* C29: a label whose only element is an image at (0,0) that fails to decode, render
\* size 0 x 0, is rendered on a canvas of 4 x 4 pixels, the margin alone
C29_UndecodedImageCanvasIs4x4 ==
    (canvas # None /\ OnlyUndecodedImage)
    => /\ elements[1].renderWidth = 0 /\ elements[1].renderHeight = 0
       /\ canvas[1] = [width |-> 4, height |-> 4]
       /\ \A k \in 1..Len(paints) : paints[k].el = 0
C29_Witness == dpc = "done" /\ OnlyUndecodedImage


(***************************************************************************)
(* C28, C30: the wrapping of a field block                                 *)
(***************************************************************************)
\* analyze has returned for the whole document ^XA^FO0,0^FB60,0,0,C,0^A0N,20,10^FDHello world here^FS^XZ
ScenarioAnalyzed == profile = "scenario" /\ pc = "analyzed" /\ Len(hist) = Len(Patterns.scenario)
\* the texts of the elements els, in order
Texts(els) == [i \in 1..Len(els) |-> els[i].text]
\* C28 as stated: the document yields one label with exactly three text elements, whose
\* texts are "Hello", "world", "here" in that order
C28_ScenarioWrapsIntoThreeLines ==
    ScenarioAnalyzed
    => /\ Len(labels) = 1
       /\ \A el \in {labels[1].elements[i] : i \in 1..Len(labels[1].elements)} : el.type = "text"
       /\ Texts(labels[1].elements) = <<"Hello", "world", "here">>
\* C28: the document is analyzed with maxChars = 10 (the block is 60 wide, the font 20
\* high and 10 wide) and yields one label with exactly two text elements, whose texts
\* are "Hello" and "world here" in that order
C28_ScenarioWrapsIntoTwoLines ==
    /\ (profile = "scenario" /\ pc = "analyze" /\ JustRead({"A"}) /\ printer.fieldBlock # None)
       => MaxChars(printer.fieldBlock[1], GetFont(printer)) = 10
    /\ ScenarioAnalyzed
       => /\ Len(labels) = 1
          /\ \A el \in {labels[1].elements[i] : i \in 1..Len(labels[1].elements)} : el.type = "text"
          /\ Texts(labels[1].elements) = <<"Hello", "world here">>
C28_Witness == ScenarioAnalyzed /\ Len(labels) = 1 /\ Len(labels[1].elements) = 2


\* the strings of ss that are not empty
NonEmpty(ss) == SelectSeq(ss, LAMBDA w : w # "")
\* the words of a string: its maximal runs of characters that are not white space
WordsOf(s) == NonEmpty(SplitWords(s))
\* the words of the strings ss, in order
RECURSIVE WordsOfAll(_)
WordsOfAll(ss) == IF ss = <<>> THEN <<>> ELSE WordsOf(Head(ss)) \o WordsOfAll(Tail(ss))
\* the step reads a ^FD that is wrapped by a field block of a width above 0
WrapsField ==
    /\ ReadsToken
    /\ BranchOf[Last(hist')] = "FD"
    /\ printer.pendingBarcode = None
    /\ printer.fieldBlock # None
    /\ printer.fieldBlock[1].width > 0
\* the payload of the ^FD that the step reads
Payload == SubstringFrom(Trimmed[Last(hist')], 3)
\* the block keeps every line that the wrapping of the payload makes
NoTruncation ==
    LET block == printer.fieldBlock[1]
        wrappedLines == WrapParagraphs(SplitParagraphs(Payload), MaxChars(block, GetFont(printer)), TRUE)
    IN block.lines <= 0 \/ block.lines >= Len(wrappedLines)
\* every line of two or more words is at most maxChars long, and a line longer than
\* maxChars is a single word
LinesFit ==
    LET maxChars == MaxChars(printer.fieldBlock[1], GetFont(printer))
        lines == Texts(Pushed)
    IN \A i \in 1..Len(lines) :
          /\ Len(WordsOf(lines[i])) >= 2 => Len(lines[i]) <= maxChars
          /\ Len(lines[i]) > maxChars => Len(WordsOf(lines[i])) = 1
\* C30 as stated: when a ^FD is wrapped with a finite maxChars, every line of two or
\* more words is at most maxChars long, a line longer than maxChars is a single word,
\* and when no line is cut off the words of the lines in order are the words that
\* white space separates in the payload, in order
C30_LinesKeepTheWordsOfThePayload ==
    [][WrapsField
       => /\ LinesFit
          /\ NoTruncation => WordsOfAll(Texts(Pushed)) = WordsOf(Payload)]_vars
\* C30 amended: the same, the words being those of the paragraphs of the payload, its
\* parts between the escapes \&, in order
C30_LinesKeepTheWordsOfTheParagraphs ==
    [][WrapsField
       => /\ LinesFit
          /\ NoTruncation => WordsOfAll(Texts(Pushed)) = WordsOfAll(SplitParagraphs(Payload))]_vars
\* a payload of three words has been wrapped with maxChars = 3 into a line of a single
\* word of four characters and a line of two words
C30_Witness ==
    /\ profile = "wrap"
    /\ Len(hist) = 3
    /\ hist[1] = "^FB14" /\ hist[2] = "^LH0,0" /\ hist[3] = "^FDabcd e f"
    /\ MaxChars(CaseFB(Reset, "^FB14").printer.fieldBlock[1], GetFont(Reset)) = 3
    /\ Texts(currentElements) = <<"abcd", "e f">>


\* C31: a ^FD wrapped by a field block whose wrapping makes P lines, with block.lines
\* = L, emits min(L, P) text elements when L > 0 and P when L = 0; line i (from 0) is
\* at x = pos.x + (0 if i = 0 else indent) and y = pos.y + offsetY + i * (h + s),
\* where offsetY = floor(((L * (h + s) - s) - (P * (h + s) - s)) / 2) when L > P and
\* 0 otherwise
C31_BlockLinesCountedAndPlaced ==
    [][(ReadsToken /\ IsBlockText)
       => LET block == printer.fieldBlock[1]
              font == GetFont(printer)
              L == block.lines
              P == Len(WrapParagraphs(SplitParagraphs(Payload), MaxChars(block, font), block.width > 0))
              h == OrElse(font.height, 10)
              s == block.lineSpacing
              pos == PosOrHome(printer)
              offsetY == IF L > P THEN ((L * (h + s) - s) - (P * (h + s) - s)) \div 2 ELSE 0
          IN /\ L > 0 => Len(Pushed) = (IF L < P THEN L ELSE P)
             /\ L = 0 => Len(Pushed) = P
             /\ L >= 0 => \A i \in 0..(Len(Pushed) - 1) :
                   /\ Pushed[i + 1].type = "text"
                   /\ Pushed[i + 1].x = pos.x + (IF i = 0 THEN 0 ELSE block.indent)
                   /\ Pushed[i + 1].y = pos.y + offsetY + i * (h + s)]_vars
\* a block of two lines has centred the single line of its payload, of height 5, at
\* offsetY = floor(5 / 2) = 2
C31_Witness ==
    /\ profile = "wrap"
    /\ hist = <<"^FB24,2", "^AAN,5", "^FDab">>
    /\ Len(currentElements) = 1
    /\ currentElements[1].x = 0 /\ currentElements[1].y = 2
\* a block with line spacing 1 and indent 3 has placed the two lines of its payload
C31_WitnessIndented ==
    /\ profile = "field"
    /\ hist = <<"^FB20,2,1,c,3", "^FDabc de">>
    /\ Len(currentElements) = 2
    /\ currentElements[1].x = 0 /\ currentElements[1].y = 0
    /\ currentElements[2].x = 3 /\ currentElements[2].y = 11
\* a block of two lines has cut the three lines of its payload down to two
C31_WitnessTruncated ==
    /\ profile = "wrap"
    /\ hist = <<"^FB24,2", "^A0N,20,10", "^FDa b c d e">>
    /\ Texts(currentElements) = <<"a b", "c d">>


\* a >= b of two numbers: false when one of them is not a number
AtLeast(a, b) == ~IsNaN(a) /\ ~IsNaN(b) /\ a >= b
\* the paints of the boxes among the elements
BoxPaints == {i \in 1..Len(paints) : paints[i].el > 0 /\ elements[paints[i].el].type = "box"}
\* the box fills by the rule: its color is F, or its thickness is at least its width
\* and at least its height
FillsByRule(el) == el.color = "F" \/ (AtLeast(el.thickness, el.width) /\ AtLeast(el.thickness, el.height))
\* a box is painted once, filled exactly when it fills by the rule and stroked otherwise
BoxesFilledByRule ==
    \A i \in BoxPaints :
        /\ paints[i].op = (IF FillsByRule(elements[paints[i].el]) THEN "fillRect" ELSE "strokeRect")
        /\ Cardinality({j \in BoxPaints : paints[j].el = paints[i].el}) = 1
C32_WitnessThin ==
    /\ Len(elements) = 2 /\ Len(paints) = 3
    /\ elements[1].type = "box" /\ elements[1].thickness = 0 /\ paints[2].lineWidth = 1
    /\ elements[2].type = "box" /\ IsNaN(elements[2].thickness) /\ paints[3].lineWidth = 1


\* the elements whose prepare took the image of generateCode39Image
Code39Prepared ==
    {i \in 1..Len(elements) :
        /\ elements[i].type = "barcode" /\ elements[i].codeType = "code39"
        /\ "image" \in DOMAIN elements[i] /\ elements[i].image # None
        /\ "bars" \in DOMAIN elements[i].image[1]}
\* C33: for a Code 39 element with a text of n characters, ratio r and module width m,
\* the generated image is (20 + (n + 2) * (6 + 3 * r) + (n + 1)) * m pixels wide, its
\* first bar starts at x = 10 * m, its last bar ends at width - 10 * m and no bar
\* reaches into the 10 * m pixels on either side; the image is as high as the element
C33_Code39WidthAndQuietZones ==
    \A i \in Code39Prepared :
        LET el == elements[i]
            img == el.image[1]
            n == Len(el.text)
            r == el.ratio
            m == el.moduleWidth
            bars == img.bars
        IN /\ img.width = (20 + (n + 2) * (6 + 3 * r) + (n + 1)) * m
           /\ bars[1][1] = 10 * m
           /\ bars[Len(bars)][1] + bars[Len(bars)][2] = img.width - 10 * m
           /\ \A k \in 1..Len(bars) : bars[k][1] >= 10 * m /\ bars[k][1] + bars[k][2] <= img.width - 10 * m
           /\ img.height = el.height
\* the image of the text 123 with module width 3 and ratio 3 has been generated:
\* (20 + 5 * 15 + 4) * 3 = 297 pixels wide, bars from 30 to 267, 7 high
C33_Witness ==
    /\ Code39Prepared = {1}
    /\ elements[1].text = "123" /\ elements[1].moduleWidth = 3 /\ elements[1].ratio = 3
    /\ elements[1].height = 7
    /\ elements[1].image[1].width = 297 /\ elements[1].image[1].height = 7
    /\ elements[1].image[1].bars[1] = <<30, 3>>
    /\ Len(elements[1].image[1].bars) = 25


\* the token the analyzer has just read, trimmed
CmdRead == Trimmed[Last(hist)]
\* the character that designates the symbology, and the first character after it
Designator(cmd) == CharAt(Prefix(cmd), 1)
Designators == {"C", "D", "3", "E", "8", "9", "A", "2", "Q", "X", "7"}
\* the orientation by the statement: the first character after the designator when
\* it is one of N, R, I, B, and N otherwise
StatedOrientation(cmd) ==
    LET o == ToUpperCase(CharAt(cmd, 3))
    IN IF o \in {"N", "R", "I", "B"} THEN o ELSE "N"
\* C34: the orientation of a ^Bx command is the first character after the designator
\* when that is one of N, R, I, B and N otherwise; when that character is a comma the
\* parameters of the code keep their positions after it, so that ^B3,N,40 gives
\* orientation N, check digit N and height 40
C34_OmittedOrientationKeepsPositions ==
    (JustRead({"B"}) /\ Designator(CmdRead) \in Designators)
    => /\ printer.pendingBarcode # None
       /\ printer.pendingBarcode[1].orientation = StatedOrientation(CmdRead)
       /\ CharAt(CmdRead, 3) = ","
          => printer.pendingBarcode[1] =
                BarcodeSpec(printer, Designator(CmdRead), "N", SplitOrEmpty(SubstringFrom(CmdRead, 4)))


\* two fractions <<numerator, denominator>> are the same number
SameRatio(a, b) == a[1] * b[2] = b[1] * a[2]
\* a ^FD has just pushed text elements in the font of the printer
TextJustPushed == JustRead({"FD"}) /\ currentElements # <<>> /\ Last(currentElements).type = "text"
\* the scale TextDrawer.prepare gives the last element pushed is s, whatever its text
\* measures, and so is the scale of the wrapping estimate for the font of the printer
ScalesAre(s) ==
    /\ SameRatio(WrapScaleX(GetFont(printer)), s)
    /\ \A measured \in TextMeasures(Last(currentElements).text) :
          SameRatio(TextPrepare(Last(currentElements), measured).scaleX, s)
\* C35 as stated: the horizontal scale of a text field is width / height whenever the
\* width and the height of the font are both set and positive, for every font
\* designator; otherwise it is 0.65 for font 0 and 1 for the others; the wrapping
\* estimate and the prepare of the text drawer use the same value for the same font
C35_ScaleFromWidthForEveryFont ==
    TextJustPushed
    => LET font == GetFont(printer)
       IN ScalesAre(IF font.width > 0 /\ font.height > 0 THEN <<font.width, font.height>>
                    ELSE IF ToUpperCase(font.name) = "0" THEN <<DefaultScaleHundredths, 100>>
                    ELSE <<1, 1>>)
\* C35 amended: the scale is width / height for font 0 when its width and height are
\* both set and positive, 0.65 for font 0 otherwise, and 1 for every other font
\* designator whatever its width; the wrapping estimate and the prepare of the text
\* drawer use the same value for the same font
C35_ScaleFromWidthForFontZeroOnly ==
    TextJustPushed
    => LET font == GetFont(printer)
       IN ScalesAre(IF ToUpperCase(font.name) # "0" THEN <<1, 1>>
                    ELSE IF font.width > 0 /\ font.height > 0 THEN <<font.width, font.height>>
                    ELSE <<DefaultScaleHundredths, 100>>)
\* a text has been pushed in font 0 with width 10 and height 20: both scales are 1/2
C35_Witness ==
    /\ TextJustPushed
    /\ GetFont(printer).name = "0" /\ GetFont(printer).width = 10 /\ GetFont(printer).height = 20
    /\ Last(currentElements).width = 10 /\ Last(currentElements).height = 20
    /\ ScalesAre(<<1, 2>>)
\* a text has been pushed in another font than 0 that has a width: both scales are 1
C35_WitnessOtherFont ==
    /\ TextJustPushed
    /\ GetFont(printer).name = "A" /\ GetFont(printer).width > 0 /\ GetFont(printer).height > 0
    /\ GetFont(printer).width # GetFont(printer).height
    /\ ScalesAre(<<1, 1>>)
\* a text has been pushed in font 0 without a width: both scales are 0.65
C35_WitnessDefaultScale ==
    /\ TextJustPushed
    /\ GetFont(printer).name = "0" /\ GetFont(printer).width = 0
    /\ ScalesAre(<<13, 20>>)


\* the sequence a is the beginning of the sequence b
StartsAs(b, a) == Len(a) <= Len(b) /\ SubSeq(b, 1, Len(a)) = a
\* a step of analyze leaves the elements emitted as they are: the buffer grows at its
\* end, or is pushed whole as a new label by ^XZ or by the end of the document, or is
\* dropped by ^XA
EmittedKept ==
    \/ StartsAs(currentElements', currentElements) /\ labels' = labels
    \/ currentElements' = <<>> /\ labels' = Append(labels, [elements |-> currentElements])
    \/ currentElements' = <<>> /\ labels' = labels /\ BranchOf[Last(hist')] = "XA"
\* C36: once an element has been emitted no later command changes a field of it, and
\* once a label has been pushed no later command, ^XA and the commands that emit
\* elements included, changes its list of elements; the draw phase of drawElements
\* changes no element
C36_ElementsKeptAfterEmission ==
    [][/\ pc = "analyze" => EmittedKept
       /\ StartsAs(labels', labels)
       /\ dpc = "draw" => elements' = elements]_vars
\* render has drawn the first of two labels: the first was pushed by ^XZ, and ^XA and
\* a circle came after it; its box was prepared and then painted
C36_Witness ==
    /\ profile = "render"
    /\ hist = <<"^FR", "^GB7,8,2", "^XZ", "^XA", "^GC5,1">>
    /\ Len(labels) = 2
    /\ Len(labels[1].elements) = 1 /\ labels[1].elements[1].type = "box"
    /\ "renderWidth" \notin DOMAIN labels[1].elements[1]
    /\ dpc = "done"
    /\ Len(elements) = 1 /\ elements[1].renderWidth = Px(7)
    /\ Len(paints) = 2


\* the step reads a ^Bx of a known symbology, a ^BY, a ^FD with a barcode pending
ReadsBarcode == ReadsToken /\ BranchOf[Last(hist')] = "B" /\ Designator(Trimmed[Last(hist')]) \in Designators
ReadsBY == ReadsToken /\ BranchOf[Last(hist')] = "BY"
ReadsBarcodeData == ReadsToken /\ BranchOf[Last(hist')] = "FD" /\ printer.pendingBarcode # None
\* n is the value of one of the parameters of the command
IsExplicit(n, cmd) ==
    \E k \in 1..Len(Params(cmd)) : ~IsNaN(ParseInt(Params(cmd)[k])) /\ ParseInt(Params(cmd)[k]) = n
\* a ^Bx fixes moduleWidth, ratio and height: the explicit value, or the default in
\* force; and a ^BY leaves what a ^Bx has fixed
FixedByBarcodeCommand ==
    /\ ReadsBarcode
       => LET bc == printer'.pendingBarcode[1]
              cmd == Trimmed[Last(hist')]
          IN /\ bc.moduleWidth = printer.barcodeModuleWidth \/ IsExplicit(bc.moduleWidth, cmd)
             /\ bc.ratio = printer.barcodeRatio
             /\ bc.height = printer.barcodeHeight \/ IsExplicit(bc.height, cmd)
    /\ ReadsBY => printer'.pendingBarcode = printer.pendingBarcode
\* C37 as stated: the moduleWidth, ratio and height of an emitted barcode element are
\* the explicit values of the ^Bx where given and otherwise the defaults in force
\* when the ^Bx was read; a ^BY between the ^Bx and its ^FD does not change the element
C37_BarcodeValuesFixedAtBx ==
    [][/\ FixedByBarcodeCommand
       /\ ReadsBarcodeData
          => LET bc == printer.pendingBarcode[1]
             IN /\ Len(Pushed) = 1 /\ Pushed[1].type = "barcode"
                /\ Pushed[1].moduleWidth = bc.moduleWidth
                /\ Pushed[1].ratio = bc.ratio
                /\ Pushed[1].height = bc.height]_vars
\* C37 amended: the same, except that an explicit moduleWidth or height of 0 gives the
\* element the default in force when the ^FD is read, which a ^BY between the ^Bx and
\* the ^FD changes
C37_BarcodeValuesFixedAtBxUnlessZero ==
    [][/\ FixedByBarcodeCommand
       /\ ReadsBarcodeData
          => LET bc == printer.pendingBarcode[1]
             IN /\ Len(Pushed) = 1 /\ Pushed[1].type = "barcode"
                /\ Pushed[1].moduleWidth = (IF bc.moduleWidth = 0 THEN printer.barcodeModuleWidth ELSE bc.moduleWidth)
                /\ Pushed[1].ratio = bc.ratio
                /\ Pushed[1].height = (IF bc.height = 0 THEN printer.barcodeHeight ELSE bc.height)]_vars
\* a ^BY has changed the defaults between a ^BCN and its ^FD: the element has the
\* module width 3, the ratio 2 and the height 40 of the defaults before the ^BCN
C37_Witness ==
    /\ profile = "barcode"
    /\ hist = <<"^BY3,2,40", "^BCN", "^BY2,3,7", "^FDq">>
    /\ printer.barcodeModuleWidth = 2 /\ printer.barcodeRatio = 3 /\ printer.barcodeHeight = 7
    /\ Len(currentElements) = 1
    /\ currentElements[1].moduleWidth = 3 /\ currentElements[1].ratio = 2 /\ currentElements[1].height = 40
\* a ^BCN,0 gives its element the height of the ^BY read after it
C37_WitnessZero ==
    /\ profile = "barcode"
    /\ hist = <<"^BY3,2,40", "^BCN,0", "^BY2,3,7", "^FDq">>
    /\ Len(currentElements) = 1
    /\ currentElements[1].moduleWidth = 3 /\ currentElements[1].ratio = 2 /\ currentElements[1].height = 7


\* the index in h of its k-th ^XZ
XZAt(h, k) ==
    CHOOSE i \in 1..Len(h) : BranchOf[h[i]] = "XZ" /\ NumXZ(SubSeq(h, 1, i)) = k
\* the tokens of h that make label k: those after ^XZ number k - 1 and before ^XZ
\* number k, or to the end of h when h has fewer than k ^XZ
TokensOfLabel(h, k) ==
    SubSeq(h, IF k = 1 THEN 1 ELSE XZAt(h, k - 1) + 1, IF k <= NumXZ(h) THEN XZAt(h, k) - 1 ELSE Len(h))
\* of these tokens, the ones after the last ^XA
AfterLastXA(toks) == After(toks, LastIndexOf(toks, {"XA"}))
\* the elements are what the tokens emit: a box, circle, diagonal or image for each
\* ^GB, ^GC, ^GD, ^IM and ^XG, and text or a barcode if and only if there is a ^FD
EmittedBy(els, toks) ==
    /\ \A b \in {"GB", "GC", "GD"} :
          CountIf(toks, LAMBDA t : BranchOf[t] = b)
             = CountIf(els, LAMBDA el : el.type = (CASE b = "GB" -> "box" [] b = "GC" -> "circle"
                                                      [] b = "GD" -> "diagonal"))
    /\ CountIf(toks, LAMBDA t : BranchOf[t] \in {"IM", "XG"}) = CountIf(els, LAMBDA el : el.type = "image")
    /\ CountIf(toks, LAMBDA t : BranchOf[t] = "FD") <= CountIf(els, LAMBDA el : el.type \in {"text", "barcode"})
    /\ CountIf(toks, LAMBDA t : BranchOf[t] = "FD") = 0
          => CountIf(els, LAMBDA el : el.type \in {"text", "barcode"}) = 0
\* C38: ^XA discards every element emitted since the last ^XZ or the start of the
\* document: every label holds what the tokens between its ^XZ and the ^XZ before it
\* emit after the last ^XA among them, and nothing of what they emit before that ^XA;
\* so does the buffer for the tokens after the last ^XZ
C38_XADiscardsElementsSinceXZ ==
    /\ \A k \in 1..Len(labels) : EmittedBy(labels[k].elements, AfterLastXA(TokensOfLabel(hist, k)))
    /\ pc = "analyze" => EmittedBy(currentElements, AfterLastXA(TokensOfLabel(hist, NumXZ(hist) + 1)))
\* analyze has returned one label for a box, a ^XA, a circle and a ^XZ: it holds the
\* circle only
C38_Witness ==
    /\ pc = "analyzed"
    /\ Len(hist) = 4
    /\ BranchOf[hist[1]] = "GB" /\ BranchOf[hist[2]] = "XA" /\ BranchOf[hist[3]] = "GC" /\ BranchOf[hist[4]] = "XZ"
    /\ Len(labels) = 1
    /\ Len(labels[1].elements) = 1 /\ labels[1].elements[1].type = "circle"
\* analyze has returned two labels, the second empty: its box came before a ^XA
C38_WitnessAfterXZ ==
    /\ pc = "analyzed"
    /\ Len(hist) = 4
    /\ BranchOf[hist[1]] = "XZ" /\ BranchOf[hist[2]] = "GB" /\ BranchOf[hist[3]] = "XA" /\ BranchOf[hist[4]] = "XZ"
    /\ labels = <<[elements |-> <<>>], [elements |-> <<>>]>>


\* the name a ~DG, ~DY, ^XG or ^IM token gives: what stands before its first comma
GraphicName(tok) ==
    LET params == SubstringFrom(Trimmed[tok], 3)
        comma == IndexOf(params, ",", 0)
    IN Trim(IF comma >= 0 THEN Substring(params, 0, comma) ELSE params)
\* the token stores a graphic: a ~DG with its three commas, a ~DY with its five, and
\* a name
StoresGraphic(tok) ==
    /\ BranchOf[tok] \in {"DG", "DY"}
    /\ Len(Params(Trimmed[tok])) > (IF BranchOf[tok] = "DG" THEN 3 ELSE 5)
    /\ GraphicName(tok) # ""
\* a graphic of this name was stored after the last ^XA of h
StoredSinceXA(h, name) ==
    \E i \in (LastIndexOf(h, {"XA"}) + 1)..Len(h) : StoresGraphic(h[i]) /\ GraphicName(h[i]) = name
\* C39: the graphic store is emptied by every ^XA: the image element of a ^XG or ^IM
\* has a graphic exactly when a ~DG or ~DY stored one of its name after the last ^XA,
\* whatever ^XZ and ^FS were read in between
C39_GraphicsLastUntilXA ==
    /\ JustRead({"XA"}) => printer.graphics = <<>>
    /\ JustRead({"XG", "IM"}) =>
          /\ currentElements # <<>>
          /\ Last(currentElements).type = "image"
          /\ Last(currentElements).graphic # None
                <=> StoredSinceXA(SubSeq(hist, 1, Len(hist) - 1), GraphicName(Last(hist)))
\* a ~DG, a ^XA and a ^XG of the same name: the image element has no graphic
C39_Witness ==
    /\ Len(hist) = 3
    /\ StoresGraphic(hist[1]) /\ BranchOf[hist[2]] = "XA" /\ BranchOf[hist[3]] = "XG"
    /\ GraphicName(hist[1]) = GraphicName(hist[3])
    /\ Last(currentElements).graphic = None
\* a ^XA, a ~DG, a ^XZ, a ^FS and a ^XG of the same name: the image element has the
\* graphic
C39_WitnessKept ==
    /\ Len(hist) = 5
    /\ BranchOf[hist[1]] = "XA" /\ StoresGraphic(hist[2]) /\ BranchOf[hist[3]] = "XZ"
    /\ BranchOf[hist[4]] = "FS" /\ BranchOf[hist[5]] = "XG"
    /\ GraphicName(hist[2]) = GraphicName(hist[5])
    /\ Last(currentElements).graphic # None

=============================================================================
